---- MODULE Spec2Model ----
(***************************************************************************)
(* A model of the agent runtime core of clawai: the tool registry, the     *)
(* agent loop, the message bus and the subagent manager.                   *)
(*                                                                         *)
(* Python values are modelled as follows.  A string is a TLA+ string.  A   *)
(* JSON value is a record [t |-> <type tag>, v |-> <payload>]; a JSON       *)
(* object's payload is a sequence of [k, val] pairs in insertion order.    *)
(* None is the value NULL.  A call of a method that the receiver's class   *)
(* does not define raises AttributeError; the classes' method tables are   *)
(* the definitions ...Methods below, read off the class bodies.            *)
(***************************************************************************)
EXTENDS Integers, Sequences, FiniteSets, TLC

NULL == "<None>"

\* ------------------------------------------------------------------------
\* Bounds of the model
\* ------------------------------------------------------------------------

\* AgentLoop(max_steps=...): the step budget the agent is constructed with.
MaxSteps == 2
\* Largest number of tool calls the provider puts in one response.
MaxCalls == 2
\* Number of ToolRegistry.execute calls a direct caller makes.
MaxExec == 2
\* Largest number of messages waiting in the bus's inbound queue.
MaxQueue == 2
\* Number of turns (calls of AgentLoop._handle_message) in a run of the model.
MaxTurns == 2

\* ------------------------------------------------------------------------
\* Small helpers
\* ------------------------------------------------------------------------

Range(s) == {s[i] : i \in 1..Len(s)}

RECURSIVE Join(_, _)
\* sep.join(strs)
Join(strs, sep) ==
    IF strs = <<>> THEN ""
    ELSE IF Len(strs) = 1 THEN strs[1]
    ELSE strs[1] \o sep \o Join(Tail(strs), sep)

\* repr() of a list of strings: ['a', 'b']
ReprStrList(strs) ==
    "[" \o Join([i \in 1..Len(strs) |-> "'" \o strs[i] \o "'"], ", ") \o "]"

RECURSIVE Flatten(_)
\* the concatenation of a sequence of sequences
Flatten(ss) == IF ss = <<>> THEN <<>> ELSE Head(ss) \o Flatten(Tail(ss))

\* ------------------------------------------------------------------------
\* JSON values (tool-call arguments)
\* ------------------------------------------------------------------------

JStr(s)  == [t |-> "string",  v |-> s]
JInt(n)  == [t |-> "integer", v |-> n]
JBool(b) == [t |-> "boolean", v |-> b]
JArr(xs) == [t |-> "array",   v |-> xs]
JObj(ps) == [t |-> "object",  v |-> ps]
KV(key, val) == [k |-> key, val |-> val]

ObjKeys(o) == {o.v[i].k : i \in 1..Len(o.v)}

\* ------------------------------------------------------------------------
\* Tool: schemas and validation (tools/base.py)
\* ------------------------------------------------------------------------

\* The methods and properties class Tool defines.
ToolMethods ==
    {"name", "description", "parameters", "execute", "stream", "cancel",
     "validate", "_validate", "to_schema"}

\* Tool._TYPE_MAP with isinstance(): bool is a subclass of int.
IsInstance(value, type) ==
    CASE type = "string"  -> value.t = "string"
      [] type = "integer" -> value.t \in {"integer", "boolean"}
      [] type = "number"  -> value.t \in {"integer", "boolean"}
      [] type = "boolean" -> value.t = "boolean"
      [] type = "array"   -> value.t = "array"
      [] type = "object"  -> value.t = "object"

TypeMapKeys == {"string", "integer", "number", "boolean", "array", "object"}

SchemaGet(schema, key, default) ==
    IF key \in DOMAIN schema THEN schema[key] ELSE default

\* Python's int value of a JSON integer or boolean.
NumOf(value) == IF value.t = "boolean" THEN (IF value.v THEN 1 ELSE 0) ELSE value.v

RECURSIVE ToolValidateRec(_, _, _)
\* Tool._validate(value, schema, path)
ToolValidateRec(value, schema, path) ==
    LET expected_type == SchemaGet(schema, "type", NULL)
        label == IF path # "" THEN path ELSE "parameter"
        typed == expected_type \in TypeMapKeys
        enumErrs ==
            IF "enum" \in DOMAIN schema /\ value \notin Range(schema["enum"])
            THEN <<label \o " must be one of "
                    \o ReprStrList([i \in 1..Len(schema["enum"]) |-> schema["enum"][i].v])>>
            ELSE <<>>
        numErrs ==
            IF expected_type \in {"integer", "number"}
            THEN (IF "minimum" \in DOMAIN schema /\ NumOf(value) < schema["minimum"]
                  THEN <<label \o " must be >= " \o ToString(schema["minimum"])>>
                  ELSE <<>>)
                 \o
                 (IF "maximum" \in DOMAIN schema /\ NumOf(value) > schema["maximum"]
                  THEN <<label \o " must be <= " \o ToString(schema["maximum"])>>
                  ELSE <<>>)
            ELSE <<>>
        strErrs ==
            IF expected_type = "string"
            THEN (IF "minLength" \in DOMAIN schema /\ Len(value.v) < schema["minLength"]
                  THEN <<label \o " must be at least "
                          \o ToString(schema["minLength"]) \o " characters">>
                  ELSE <<>>)
                 \o
                 (IF "maxLength" \in DOMAIN schema /\ Len(value.v) > schema["maxLength"]
                  THEN <<label \o " must be at most "
                          \o ToString(schema["maxLength"]) \o " characters">>
                  ELSE <<>>)
            ELSE <<>>
        objErrs ==
            IF expected_type = "object"
            THEN LET props == SchemaGet(schema, "properties", <<>>)
                     req == SchemaGet(schema, "required", <<>>)
                     missing(i) ==
                         IF req[i] \notin ObjKeys(value)
                         THEN <<"missing required "
                                 \o (IF path # "" THEN path \o "." \o req[i] ELSE req[i])>>
                         ELSE <<>>
                     sub(i) ==
                         IF value.v[i].k \in DOMAIN props
                         THEN ToolValidateRec(
                                  value.v[i].val, props[value.v[i].k],
                                  IF path # "" THEN path \o "." \o value.v[i].k
                                  ELSE value.v[i].k)
                         ELSE <<>>
                 IN Flatten([i \in 1..Len(req) |-> missing(i)])
                    \o Flatten([i \in 1..Len(value.v) |-> sub(i)])
            ELSE <<>>
        arrErrs ==
            IF expected_type = "array" /\ "items" \in DOMAIN schema
            THEN Flatten([i \in 1..Len(value.v) |->
                     ToolValidateRec(
                         value.v[i], schema["items"],
                         IF path # "" THEN path \o "[" \o ToString(i - 1) \o "]"
                         ELSE "[" \o ToString(i - 1) \o "]")])
            ELSE <<>>
    IN IF typed /\ ~IsInstance(value, expected_type)
       THEN <<label \o " should be " \o expected_type>>
       ELSE enumErrs \o numErrs \o strErrs \o objErrs \o arrErrs

\* {**schema, "type": "object"}
WithObjectType(schema) ==
    [key \in DOMAIN schema \cup {"type"} |->
        IF key = "type" THEN "object" ELSE schema[key]]

\* Tool.validate(params): the list of validation errors, or a raised
\* ValueError when the schema root is not an object schema.
ToolValidate(schema, params) ==
    IF SchemaGet(schema, "type", "object") # "object"
    THEN [raised |-> TRUE,
          exc |-> "Tool schema must be object type, got '" \o schema["type"] \o "'",
          errors |-> <<>>]
    ELSE [raised |-> FALSE, exc |-> "",
          errors |-> ToolValidateRec(params, WithObjectType(schema), "")]

\* ------------------------------------------------------------------------
\* The built-in tools (tools/filesystem.py, shell.py, web.py, message.py,
\* spawn.py): class names and parameter schemas.  The "description" and
\* "default" entries of the schemas play no part in validation and are
\* left out.
\* ------------------------------------------------------------------------

StringSchema == [type |-> "string"]

ObjectSchema(props, req) ==
    [type |-> "object", properties |-> props, required |-> req]

\* The class of the tool registered under a name.
ToolClass(name) ==
    CASE name = "read_file"  -> "ReadFileTool"
      [] name = "write_file" -> "WriteFileTool"
      [] name = "edit_file"  -> "EditFileTool"
      [] name = "list_dir"   -> "ListDirTool"
      [] name = "exec"       -> "ExecTool"
      [] name = "web_search" -> "WebSearchTool"
      [] name = "web_fetch"  -> "WebFetchTool"
      [] name = "message"    -> "MessageTool"
      [] name = "spawn"      -> "SpawnTool"

\* The "parameters" property of the tool registered under a name.
ToolSchema(name) ==
    CASE name = "read_file" ->
            ObjectSchema([path |-> StringSchema], <<"path">>)
      [] name = "write_file" ->
            ObjectSchema([path |-> StringSchema, content |-> StringSchema],
                         <<"path", "content">>)
      [] name = "edit_file" ->
            ObjectSchema([path |-> StringSchema, old_text |-> StringSchema,
                          new_text |-> StringSchema],
                         <<"path", "old_text", "new_text">>)
      [] name = "list_dir" ->
            ObjectSchema([path |-> StringSchema], <<"path">>)
      [] name = "exec" ->
            ObjectSchema([command |-> StringSchema, working_dir |-> StringSchema],
                         <<"command">>)
      [] name = "web_search" ->
            ObjectSchema([query |-> StringSchema,
                          count |-> [type |-> "integer", minimum |-> 1, maximum |-> 10]],
                         <<"query">>)
      [] name = "web_fetch" ->
            ObjectSchema([url |-> StringSchema,
                          extractMode |-> [type |-> "string",
                                           enum |-> <<JStr("markdown"), JStr("text")>>],
                          maxChars |-> [type |-> "integer", minimum |-> 100]],
                         <<"url">>)
      [] name = "message" ->
            ObjectSchema([content |-> StringSchema, channel |-> StringSchema,
                          chat_id |-> StringSchema],
                         <<"content">>)
      [] name = "spawn" ->
            ObjectSchema([task |-> StringSchema, label |-> StringSchema],
                         <<"task">>)

\* AgentLoop._register_tools: the names in the main agent's registry.
MainTools ==
    {"read_file", "write_file", "edit_file", "list_dir", "exec",
     "web_search", "web_fetch", "message", "spawn"}

\* A faulty registry for the subagents: the main agent's, message and spawn
\* included.
SubagentToolsInherited ==
    {"read_file", "write_file", "edit_file", "list_dir", "exec",
     "web_search", "web_fetch", "message", "spawn"}

\* SubagentManager._build_tool_registry: the names in a subagent's registry.
SubagentTools ==
    {"read_file", "write_file", "list_dir", "exec", "web_search", "web_fetch"}

\* ------------------------------------------------------------------------
\* ToolRegistry.execute (tools/registry.py)
\* ------------------------------------------------------------------------

\* What the body of a tool's execute() does once invoked is the
\* environment's: it returns a string or raises.  reg_last.outcome is what
\* the body does if the registry invokes it.
ToolOutcomes ==
    {[kind |-> "return", text |-> "hello"],
     [kind |-> "return", text |-> "Error: file not found: /tmp/a.txt"],
     [kind |-> "raise",  text |-> "boom"]}

\* errors = tool.validate_params(params)   (registry.py line 75)
\* Tool defines validate, not validate_params: the attribute lookup raises
\* AttributeError unless the class has the method.
CallValidateParams(name, params) ==
    IF "validate_params" \in ToolMethods
    THEN ToolValidate(ToolSchema(name), params)
    ELSE [raised |-> TRUE,
          exc |-> "'" \o ToolClass(name)
                  \o "' object has no attribute 'validate_params'",
          errors |-> <<>>]

\* ToolRegistry.execute(name, params) on a registry holding `tools`.
\* result: the returned string; ran: whether the tool's execute body was
\* invoked.  The function has no path that raises to its caller.
RegistryExecute(tools, name, params, outcome) ==
    IF name \notin tools
    THEN [result |-> "Error: tool '" \o name \o "' is not registered",
          ran |-> FALSE]
    ELSE LET v == CallValidateParams(name, params) IN
         IF v.raised
         THEN [result |-> "Error: invalid schema for tool '" \o name \o "': " \o v.exc,
               ran |-> FALSE]
         ELSE IF v.errors # <<>>
         THEN [result |-> "Error: invalid parameters for tool '" \o name \o "': "
                          \o Join(v.errors, "; "),
               ran |-> FALSE]
         ELSE IF outcome.kind = "raise"
         THEN [result |-> "Error: tool '" \o name \o "' execution failed: "
                          \o outcome.text,
               ran |-> TRUE]
         ELSE [result |-> outcome.text, ran |-> TRUE]

\* Arguments a caller passes to execute.
ExecParams ==
    {JObj(<<>>),
     JObj(<<KV("path", JStr("/tmp/a.txt"))>>),
     JObj(<<KV("path", JInt(7))>>),
     JObj(<<KV("path", JStr("/tmp/a.txt")), KV("extra", JStr("x"))>>),
     JObj(<<KV("extra", JStr("x"))>>),
     JObj(<<KV("query", JStr("tla")), KV("count", JInt(5))>>),
     JObj(<<KV("query", JStr("tla")), KV("count", JInt(0))>>),
     JObj(<<KV("query", JInt(3)), KV("count", JInt(11))>>),
     JObj(<<KV("url", JStr("http://a")), KV("extractMode", JStr("html"))>>),
     JObj(<<KV("content", JStr("hi"))>>),
     JObj(<<KV("task", JStr("find TODOs"))>>)}

\* Tool names a caller passes to execute; "nope" is registered nowhere.
ExecNames == {"read_file", "web_search", "web_fetch", "message", "spawn", "nope"}

\* ------------------------------------------------------------------------
\* State
\* ------------------------------------------------------------------------

VARIABLES
    \* direct calls of ToolRegistry.execute on the main agent's registry
    reg_n,          \* number of execute calls made
    reg_last,       \* the last call: [name, params, outcome, result, ran], or NULL
    reg_body,       \* the [name, params] tool bodies were invoked with
    \* MessageBus
    inbound,        \* MessageBus.inbound, oldest first
    outbound,       \* MessageBus.outbound, oldest first
    \* SessionManager
    sessions,       \* SessionManager._cache: session key -> messages
    disk,           \* the session files: session key -> messages
    \* the stateful tools' routing context
    tool_ctx,       \* [message |-> [channel, chat_id], spawn |-> [channel, chat_id]]
    \* AgentLoop.run
    run_state,      \* "new", "running", "stopped" or "crashed"
    turns,          \* log of the _handle_message calls that have ended
    \* the _agent_loop invocation in progress
    al_pc,          \* "idle", "chat", "tool", "returned" or "raised"
    al_caller,      \* "none", "direct", "run" or "process_direct"
    al_msg,         \* the InboundMessage of the turn, or NULL
    al_key,         \* the session_key argument of process_direct, or NULL
    al_step,        \* the loop variable step
    al_messages,    \* the local list messages
    al_resp,        \* the last response received, or NULL
    al_resps,       \* the responses provider.chat has returned, in order
    al_idx,         \* index of the next tool call of al_resp to execute
    al_result,      \* the returned string or the exception, or NULL
    al_chats,       \* number of provider.chat calls of this invocation
    al_execs,       \* the tool calls handed to tools.execute, in order
    \* SubagentManager
    subs,           \* the background tasks spawned, in spawn order
    sub_running,    \* the keys of SubagentManager._running_tasks
    \* direct calls of AgentLoop._update_tool_context
    ctx_last,       \* the last call, <<[channel, chat_id, raised, exc]>>, or <<>>
    \* MessageBus: the dispatcher side
    bus_running,    \* MessageBus._running.is_set()
    dispatchers,    \* the _dispatch_loop tasks created: "top", "get" or "done"
    subscribers,    \* MessageBus._subscribers: channel -> callbacks
    dispatched,     \* log of the outbound messages a dispatcher has taken
    \* CronService
    now,            \* what now_ms() returns, in units of 1000 ms
    cron_running,   \* CronService._running
    cron_loaded,    \* whether CronService._store is set
    cron_heap,      \* the CronJob objects created, by id
    cron_store,     \* CronService._store.jobs: the ids, in insertion order
    cron_disk,      \* the jobs in the store file
    cron_tasks,     \* how many scheduler-loop and flusher tasks were created
    cron_wakeup,    \* CronService._wakeup_event.is_set()
    cron_pc,        \* the scheduler loop: "off", "top", "callback" or "wait"
    cron_tick_now,  \* the local now of the loop's current round
    cron_cur,       \* the job whose callback _run_jobs awaits, or 0
    cron_due,       \* the jobs of the due set still to be executed
    cron_sleep_until, \* when the wait_for of the loop times out
    cron_runs,      \* per job: callback invocations made, how the last ended
    \* the start() calls made
    starts,         \* [bus, cron]: the number of calls of each start()
    \* HeartbeatService
    hb_running,     \* HeartbeatService._running
    hb_tasks,       \* the _run_loop tasks created: [pc, cancel]
    hb_loop_task,   \* HeartbeatService._loop_task: an index of hb_tasks, or 0
    hb_stops,       \* the tasks awaited by the stop() calls in progress
    hb_file,        \* HEARTBEAT.md in the workspace
    hb_calls,       \* the callback invocations: [by, file, state]
    \* channel adapters
    chan_log,       \* the handle_message calls made: the event, whether published
    \* SessionManager and the session directory
    st_heap,        \* the Session objects of the process, in order of creation
    st_cache,       \* SessionManager._cache: session key -> index in st_heap
    st_files,       \* the files of sessions_dir: path -> text
    st_save,        \* the save call in progress, <<[id, pc, todo]>>, or <<>>
    st_committed,   \* per session file, the session of the last completed rename
    st_last,        \* the last save call that ended, <<[id, ok, session]>>, or <<>>
    st_n,           \* [save, kill]: the save calls made, the times the process died
    \* ExecTool
    sh_calls,       \* the execute calls: [command, allow, state, launched, result]
    \* MessageBus.stop
    bus_stop_mark   \* <<n>>: the last stop() that cleared the flag came after n
                    \* outbound messages had been published; <<>> before any

regVars == <<reg_n, reg_last, reg_body>>
busVars == <<inbound, outbound>>
sessVars == <<sessions, disk>>
alVars == <<al_pc, al_caller, al_msg, al_key, al_step, al_messages, al_resp,
            al_resps, al_idx, al_result, al_chats, al_execs>>
subVars == <<subs, sub_running>>
ctxVars == <<ctx_last>>
dispVars == <<bus_running, dispatchers, subscribers, dispatched>>
cronVars == <<now, cron_running, cron_loaded, cron_heap, cron_store, cron_disk,
              cron_tasks, cron_wakeup, cron_pc, cron_tick_now, cron_cur, cron_due,
              cron_sleep_until, cron_runs>>
hbVars == <<hb_running, hb_tasks, hb_loop_task, hb_stops, hb_file, hb_calls>>
chanVars == <<chan_log>>
storeVars == <<st_heap, st_cache, st_files, st_save, st_committed, st_last, st_n>>
shellVars == <<sh_calls>>
stopVars == <<bus_stop_mark>>
libVars == <<storeVars, shellVars, stopVars>>
extVars == <<hbVars, chanVars, libVars>>
svcVars == <<ctxVars, dispVars, cronVars, starts, extVars>>
agentVars == <<regVars, sessVars, tool_ctx, run_state, turns, alVars, subVars, ctxVars>>
coreVars == <<agentVars, busVars, dispVars, cronVars, starts>>
vars == <<regVars, busVars, sessVars, tool_ctx, run_state, turns, alVars, subVars,
          svcVars>>

\* ------------------------------------------------------------------------
\* Events (bus/events.py)
\* ------------------------------------------------------------------------

InboundMessage(channel, sender_id, chat_id, content) ==
    [channel |-> channel, sender_id |-> sender_id, chat_id |-> chat_id,
     content |-> content]

\* InboundMessage.session_key
SessionKey(msg) == msg.channel \o ":" \o msg.chat_id

OutboundMessage(channel, chat_id, content) ==
    [channel |-> channel, chat_id |-> chat_id, content |-> content]

\* Message texts users, cron jobs and the heartbeat send.
Contents == {"What is 2+2?", "ping"}

\* The messages channel adapters publish.
ChannelMessages ==
    {InboundMessage("telegram", "u1", "42", "What is 2+2?"),
     InboundMessage("telegram", "u2", "43", "ping"),
     InboundMessage("cli", "user", "direct", "ping")}

\* The session keys process_direct is called with (cli/commands.py).
DirectKeys == {"cli:default", "cron:job1", "heartbeat"}

\* Every session key of the model.
SessionKeys ==
    {SessionKey(m) : m \in ChannelMessages} \cup DirectKeys \cup {"cli:direct"}

\* ------------------------------------------------------------------------
\* Session and SessionManager (session/manager.py)
\* ------------------------------------------------------------------------

\* The methods class Session defines.
SessionMethods == {"append", "history", "clear"}

\* The methods class SessionManager defines.
SessionManagerMethods == {"_path", "get", "save", "delete", "list", "_load"}

AttributeError(cls, attr) ==
    "AttributeError: '" \o cls \o "' object has no attribute '" \o attr \o "'"

\* Session.append(role, content); the timestamp field is left out.
SessionAppend(messages, role, content) ==
    Append(messages, [role |-> role, content |-> content])

\* Session.history(max_messages=50): the last max_messages messages
\* projected to role and content.
HistoryWindow == 50

SessionHistory(messages) ==
    LET n == Len(messages)
        from == IF n > HistoryWindow THEN n - HistoryWindow + 1 ELSE 1
    IN [i \in 1..(n - from + 1) |->
           [role |-> messages[from + i - 1].role,
            content |-> messages[from + i - 1].content]]

\* SessionManager._cache of a new manager, and an empty sessions directory.
NoSessions == [key \in {} |-> <<>>]

\* SessionManager.get(key): the cached session, else the one loaded from
\* its file, else a new one; the result is cached.
SessionManagerGet(cache, files, key) ==
    IF key \in DOMAIN cache THEN cache
    ELSE [k \in DOMAIN cache \cup {key} |->
             IF k = key
             THEN (IF key \in DOMAIN files THEN files[key] ELSE <<>>)
             ELSE cache[k]]

\* SessionManager.save(session): the file is replaced by the session.
SessionManagerSave(files, key, messages) ==
    [k \in DOMAIN files \cup {key} |-> IF k = key THEN messages ELSE files[k]]

\* ------------------------------------------------------------------------
\* LLM responses (llm/base.py) and the provider
\* ------------------------------------------------------------------------

ToolCall(id, name, arguments) ==
    [id |-> id, name |-> name, arguments |-> arguments]

LLMResponse(content, tool_calls, finish_reason) ==
    [content |-> content, tool_calls |-> tool_calls,
     finish_reason |-> finish_reason]

\* LLMResponse.has_tool_calls
HasToolCalls(response) == response.tool_calls # <<>>

\* A faulty `content or default` that hands a null content on.
OrElseKeepsNull(content, default) == content

\* Python's `content or default` for an optional string.
OrElse(content, default) ==
    IF content = NULL \/ content = "" THEN default ELSE content

\* The name and arguments of the tool calls the provider asks for.
ToolCallKinds ==
    {[name |-> "read_file",
      arguments |-> JObj(<<KV("path", JStr("/tmp/a.txt"))>>)],
     [name |-> "read_file", arguments |-> JObj(<<>>)],
     [name |-> "nope", arguments |-> JObj(<<>>)]}

\* The id the provider gives the i-th tool call of a response.
CallId(i) == "call_" \o ToString(i)

\* The non-empty tool-call lists of a response.
ToolCallLists ==
    UNION {{[i \in 1..n |-> ToolCall(CallId(i), kinds[i].name, kinds[i].arguments)] :
               kinds \in [1..n -> ToolCallKinds]} :
           n \in 1..MaxCalls}

\* What provider.chat returns: a final response, with or without text,
\* or a response asking for tool calls (here with text only beside a
\* single call).
ProviderResponses ==
    {LLMResponse(c, <<>>, f) : c \in {NULL, "", "4"}, f \in {"stop", "error"}}
    \cup
    {LLMResponse(NULL, tcs, "tool_calls") : tcs \in ToolCallLists}
    \cup
    {LLMResponse("Let me check.", tcs, "tool_calls") :
        tcs \in {l \in ToolCallLists : Len(l) = 1}}

\* provider.chat is abstract (LLMProvider.chat): besides returning a
\* response it may raise.
ProviderOutcomes ==
    {[raised |-> FALSE, response |-> r, exc |-> ""] : r \in ProviderResponses}
    \cup {[raised |-> TRUE, response |-> NULL, exc |-> "RuntimeError: provider down"]}

\* ------------------------------------------------------------------------
\* ContextBuilder (agent/context.py) and AgentLoop._format_tool_calls
\* ------------------------------------------------------------------------

RECURSIVE JsonDumps(_)
\* json.dumps(value) with the default separators
JsonDumps(value) ==
    CASE value.t = "string"  -> "\"" \o value.v \o "\""
      [] value.t = "integer" -> ToString(value.v)
      [] value.t = "boolean" -> (IF value.v THEN "true" ELSE "false")
      [] value.t = "array"   ->
            "[" \o Join([i \in 1..Len(value.v) |-> JsonDumps(value.v[i])], ", ") \o "]"
      [] value.t = "object"  ->
            "{" \o Join([i \in 1..Len(value.v) |->
                          "\"" \o value.v[i].k \o "\": " \o JsonDumps(value.v[i].val)],
                        ", ") \o "}"

\* AgentLoop._format_tool_calls(response)
FormatToolCalls(response) ==
    [i \in 1..Len(response.tool_calls) |->
        [id |-> response.tool_calls[i].id,
         type |-> "function",
         function |-> [name |-> response.tool_calls[i].name,
                       arguments |-> JsonDumps(response.tool_calls[i].arguments)]]]

\* ContextBuilder.build_system_prompt: its text plays no part here.
SystemPrompt == "<system prompt>"

\* ContextBuilder.build_messages(history, current_message) without media
BuildMessages(history, current_message) ==
    <<[role |-> "system", content |-> SystemPrompt]>>
    \o history
    \o <<[role |-> "user", content |-> current_message]>>

\* ContextBuilder.add_assistant_message(messages, content, tool_calls)
AddAssistantMessage(messages, content, tool_calls) ==
    Append(messages,
           IF tool_calls # <<>>
           THEN [role |-> "assistant", content |-> OrElse(content, ""),
                 tool_calls |-> tool_calls]
           ELSE [role |-> "assistant", content |-> OrElse(content, "")])

\* A faulty add_tool_result that swaps the id and the name of the call.
AddToolResultSwapped(messages, tool_call_id, tool_name, result) ==
    Append(messages,
           [role |-> "tool", tool_call_id |-> tool_name,
            name |-> tool_call_id, content |-> result])

\* ContextBuilder.add_tool_result(messages, tool_call_id, tool_name, result)
AddToolResult(messages, tool_call_id, tool_name, result) ==
    Append(messages,
           [role |-> "tool", tool_call_id |-> tool_call_id,
            name |-> tool_name, content |-> result])

\* ------------------------------------------------------------------------
\* AgentLoop (agent/loop.py)
\* ------------------------------------------------------------------------

\* The string _agent_loop returns when the step budget is used up.
StepLimitMessage == "Task execution stopped after reaching step limit."

\* The tools that define set_context, and those whose set_context takes
\* its arguments by keyword only (SpawnTool.set_context(self, *, channel,
\* chat_id)).
ToolsWithSetContext == {"message", "spawn"}
SetContextKeywordOnly == {"spawn"}

\* One round of the loop of _update_tool_context: tool.set_context(channel,
\* chat_id) with positional arguments.
SetToolContext(r, name, channel, chat_id) ==
    IF r.raised \/ name \notin MainTools \/ name \notin ToolsWithSetContext
    THEN r
    ELSE IF name \in SetContextKeywordOnly
    THEN [r EXCEPT !.raised = TRUE,
                   !.exc = "TypeError: " \o ToolClass(name)
                           \o ".set_context() takes 1 positional argument but 3 were given"]
    ELSE [r EXCEPT !.ctx[name] = [channel |-> channel, chat_id |-> chat_id]]

\* AgentLoop._update_tool_context(channel, chat_id)
UpdateToolContext(ctx, channel, chat_id) ==
    SetToolContext(
        SetToolContext([raised |-> FALSE, exc |-> "", ctx |-> ctx],
                       "message", channel, chat_id),
        "spawn", channel, chat_id)

\* AgentLoop._handle_message, lines 135-142: from the session lookup to the
\* built message list.  The lookups of get_or_create on the SessionManager
\* and of get_history on the Session raise AttributeError when the class
\* does not define the method.
HandlePrefix(msg) ==
    IF "get_or_create" \notin SessionManagerMethods
    THEN [raised |-> TRUE,
          exc |-> AttributeError("SessionManager", "get_or_create"),
          sessions |-> sessions, ctx |-> tool_ctx, messages |-> <<>>]
    ELSE LET cache == SessionManagerGet(sessions, disk, SessionKey(msg))
             u == UpdateToolContext(tool_ctx, msg.channel, msg.chat_id)
         IN IF u.raised
            THEN [raised |-> TRUE, exc |-> u.exc,
                  sessions |-> cache, ctx |-> u.ctx, messages |-> <<>>]
            ELSE IF "get_history" \notin SessionMethods
            THEN [raised |-> TRUE, exc |-> AttributeError("Session", "get_history"),
                  sessions |-> cache, ctx |-> u.ctx, messages |-> <<>>]
            ELSE [raised |-> FALSE, exc |-> "",
                  sessions |-> cache, ctx |-> u.ctx,
                  messages |-> BuildMessages(SessionHistory(cache[SessionKey(msg)]),
                                             msg.content)]

\* An entry of the log of ended turns: the message, who called
\* _handle_message, process_direct's session_key argument, how the call
\* ended ("returned" with the final answer or "raised" with the exception),
\* the number of provider.chat calls and the responses received.
TurnRecord(msg, caller, key, outcome, value, chats, resps) ==
    [msg |-> msg, caller |-> caller, key |-> key, outcome |-> outcome,
     value |-> value, chats |-> chats, resps |-> resps]

\* The exceptions that are instances of asyncio.TimeoutError.
TimeoutErrors == {"TimeoutError"}

\* A faulty handler that swallows every exception and polls again.
RunExceptSwallowsAll(exc) == "continue"

\* AgentLoop.run, lines 111-116: the except clauses around the body of the
\* loop.  asyncio.TimeoutError makes the loop continue; any other exception
\* is logged and re-raised.
RunExcept(exc) ==
    IF exc \in TimeoutErrors THEN "continue" ELSE "raise"

\* A _handle_message call ends by raising exc: run() logs and re-raises, so
\* the consume loop ends; process_direct passes the exception to its caller.
TurnRaises(msg, caller, key, exc, chats, resps) ==
    /\ turns' = Append(turns, TurnRecord(msg, caller, key, "raised", exc, chats, resps))
    /\ run_state' = IF caller = "run" /\ RunExcept(exc) = "raise"
                    THEN "crashed" ELSE run_state

\* _handle_message(msg) up to its call of _agent_loop.
StartTurn(msg, caller, key) ==
    LET p == HandlePrefix(msg) IN
    /\ sessions' = p.sessions
    /\ tool_ctx' = p.ctx
    /\ IF p.raised
       THEN /\ TurnRaises(msg, caller, key, p.exc, 0, <<>>)
            /\ UNCHANGED alVars
       ELSE /\ al_pc' = "chat"
            /\ al_caller' = caller
            /\ al_msg' = msg
            /\ al_key' = key
            /\ al_step' = 0
            /\ al_messages' = p.messages
            /\ al_resp' = NULL
            /\ al_resps' = <<>>
            /\ al_idx' = 0
            /\ al_result' = NULL
            /\ al_chats' = 0
            /\ al_execs' = <<>>
            /\ UNCHANGED <<turns, run_state>>
    /\ UNCHANGED <<svcVars, disk, outbound, regVars, subVars>>

\* _agent_loop ends, returning value (kind "returned") or raising it (kind
\* "raised").  For a direct caller that is all.  In _handle_message, lines
\* 146-154 follow a return: the user message and the answer are appended to
\* the session, the session is saved and the reply is built; run() then
\* publishes the reply (lines 108-109).
EndLoop(kind, value, chats, resps) ==
    IF al_caller = "direct"
    THEN /\ al_pc' = kind
         /\ al_result' = value
         /\ UNCHANGED <<al_caller, al_msg, al_key, sessions, disk, outbound,
                        run_state, turns>>
    ELSE /\ al_pc' = "idle"
         /\ al_result' = NULL
         /\ al_caller' = "none"
         /\ al_msg' = NULL
         /\ al_key' = NULL
         /\ IF kind = "raised"
            THEN /\ TurnRaises(al_msg, al_caller, al_key, value, chats, resps)
                 /\ UNCHANGED <<sessions, disk, outbound>>
            ELSE IF "add_message" \notin SessionMethods
            THEN /\ TurnRaises(al_msg, al_caller, al_key,
                               AttributeError("Session", "add_message"), chats, resps)
                 /\ UNCHANGED <<sessions, disk, outbound>>
            ELSE LET key == SessionKey(al_msg)
                     msgs == SessionAppend(
                                 SessionAppend(sessions[key], "user", al_msg.content),
                                 "assistant", value)
                 IN /\ sessions' = [sessions EXCEPT ![key] = msgs]
                    /\ disk' = SessionManagerSave(disk, key, msgs)
                    /\ outbound' =
                         IF al_caller = "run"
                         THEN Append(outbound,
                                     OutboundMessage(al_msg.channel, al_msg.chat_id, value))
                         ELSE outbound
                    /\ turns' = Append(turns,
                                       TurnRecord(al_msg, al_caller, al_key,
                                                  "returned", value, chats, resps))
                    /\ UNCHANGED run_state

\* A direct call _agent_loop(messages) with messages = [system, user].
AgentLoopCall ==
    /\ al_pc = "idle"
    /\ al_messages' = BuildMessages(<<>>, "What is 2+2?")
    /\ al_pc' = "chat"
    /\ al_caller' = "direct"
    /\ al_step' = 0
    /\ al_resp' = NULL
    /\ al_resps' = <<>>
    /\ al_idx' = 0
    /\ al_result' = NULL
    /\ al_chats' = 0
    /\ al_execs' = <<>>
    /\ UNCHANGED <<svcVars, al_msg, al_key, regVars, subVars, busVars, sessVars, tool_ctx,
                   run_state, turns>>

\* _agent_loop, lines 162-175: one provider.chat call and what follows it
\* up to the next await.
AgentChat ==
    /\ al_pc = "chat"
    /\ \E o \in ProviderOutcomes :
         /\ al_chats' = al_chats + 1
         /\ IF o.raised
            THEN /\ EndLoop("raised", o.exc, al_chats + 1, al_resps)
                 /\ UNCHANGED <<al_step, al_messages, al_resp, al_resps, al_idx,
                                al_execs>>
            ELSE IF ~HasToolCalls(o.response)
            THEN /\ EndLoop("returned", OrElse(o.response.content, ""), al_chats + 1,
                            Append(al_resps, o.response))
                 /\ al_resp' = o.response
                 /\ al_resps' = Append(al_resps, o.response)
                 /\ UNCHANGED <<al_step, al_messages, al_idx, al_execs>>
            ELSE /\ al_messages' = AddAssistantMessage(al_messages, o.response.content,
                                                       FormatToolCalls(o.response))
                 /\ al_resp' = o.response
                 /\ al_resps' = Append(al_resps, o.response)
                 /\ al_idx' = 1
                 /\ al_pc' = "tool"
                 /\ UNCHANGED <<al_step, al_execs, al_caller, al_msg, al_key,
                                al_result, sessions, disk, outbound, run_state, turns>>
    /\ UNCHANGED <<svcVars, regVars, subVars, inbound, tool_ctx>>

\* A faulty tool step that lets the error of a refused call end the loop.
AgentToolExecAborting ==
    /\ al_pc = "tool"
    /\ \E outcome \in ToolOutcomes :
         LET tc == al_resp.tool_calls[al_idx]
             r == RegistryExecute(MainTools, tc.name, tc.arguments, outcome)
         IN /\ al_messages' = AddToolResult(al_messages, tc.id, tc.name, r.result)
            /\ al_execs' = Append(al_execs,
                                  [call |-> tc, result |-> r.result, ran |-> r.ran])
            /\ IF ~r.ran
               THEN /\ EndLoop("raised", r.result, al_chats, al_resps)
                    /\ UNCHANGED <<al_step, al_idx>>
               ELSE IF al_idx < Len(al_resp.tool_calls)
               THEN /\ al_idx' = al_idx + 1
                    /\ UNCHANGED <<al_pc, al_step, al_caller, al_msg, al_key, al_result,
                                   sessions, disk, outbound, run_state, turns>>
               ELSE IF al_step + 1 < MaxSteps
               THEN /\ al_step' = al_step + 1
                    /\ al_pc' = "chat"
                    /\ al_idx' = 0
                    /\ UNCHANGED <<al_caller, al_msg, al_key, al_result,
                                   sessions, disk, outbound, run_state, turns>>
               ELSE /\ EndLoop("returned", StepLimitMessage, al_chats, al_resps)
                    /\ UNCHANGED <<al_step, al_idx>>
    /\ UNCHANGED <<svcVars, al_resp, al_resps, al_chats, regVars, subVars, inbound, tool_ctx>>

\* _agent_loop, lines 177-192: one tools.execute call and the tool message
\* appended for it; after the last call of the response the loop goes to its
\* next step, or ends with the step-limit string when the budget is used up.
AgentToolExec ==
    /\ al_pc = "tool"
    /\ \E outcome \in ToolOutcomes :
         LET tc == al_resp.tool_calls[al_idx]
             r == RegistryExecute(MainTools, tc.name, tc.arguments, outcome)
         IN /\ al_messages' = AddToolResult(al_messages, tc.id, tc.name, r.result)
            /\ al_execs' = Append(al_execs,
                                  [call |-> tc, result |-> r.result, ran |-> r.ran])
            /\ IF al_idx < Len(al_resp.tool_calls)
               THEN /\ al_idx' = al_idx + 1
                    /\ UNCHANGED <<al_pc, al_step, al_caller, al_msg, al_key, al_result,
                                   sessions, disk, outbound, run_state, turns>>
               ELSE IF al_step + 1 < MaxSteps
               THEN /\ al_step' = al_step + 1
                    /\ al_pc' = "chat"
                    /\ al_idx' = 0
                    /\ UNCHANGED <<al_caller, al_msg, al_key, al_result,
                                   sessions, disk, outbound, run_state, turns>>
               ELSE /\ EndLoop("returned", StepLimitMessage, al_chats, al_resps)
                    /\ UNCHANGED <<al_step, al_idx>>
    /\ UNCHANGED <<svcVars, al_resp, al_resps, al_chats, regVars, subVars, inbound, tool_ctx>>

\* The sizes the queues are constructed with: cli/commands.py builds the
\* bus as MessageBus(), so both are the defaults of __init__.
InboundSize == 0
OutboundSize == 0

\* asyncio.Queue.full(): a queue of maxsize <= 0 is never full.
QueueFull(queue, maxsize) == maxsize > 0 /\ Len(queue) >= maxsize

\* A channel adapter publishes a message: MessageBus.publish_inbound.  The
\* put waits while the queue is full.
PublishInbound ==
    /\ ~QueueFull(inbound, InboundSize)
    /\ Len(inbound) < MaxQueue
    /\ \E m \in ChannelMessages : inbound' = Append(inbound, m)
    /\ UNCHANGED <<svcVars, outbound, regVars, subVars, sessVars, tool_ctx, run_state, turns, alVars>>

\* AgentLoop.run() is called.
RunStart ==
    /\ run_state \in {"new", "stopped"}
    /\ run_state' = "running"
    /\ UNCHANGED <<svcVars, regVars, subVars, busVars, sessVars, tool_ctx, turns, alVars>>

\* AgentLoop.run, lines 103-116: a message is consumed and handled.
RunIteration ==
    /\ run_state = "running"
    /\ al_pc = "idle"
    /\ inbound # <<>>
    /\ Len(turns) < MaxTurns
    /\ inbound' = Tail(inbound)
    /\ StartTurn(Head(inbound), "run", NULL)

\* AgentLoop.run, lines 111-112: the read of the inbound queue times out
\* and the loop polls again.
RunPollTimeout ==
    /\ run_state = "running"
    /\ al_pc = "idle"
    /\ inbound = <<>>
    /\ UNCHANGED vars

\* AgentLoop.stop()
AgentStop ==
    /\ run_state = "running"
    /\ al_caller # "run"
    /\ run_state' = "stopped"
    /\ UNCHANGED <<svcVars, regVars, subVars, busVars, sessVars, tool_ctx, turns, alVars>>

\* AgentLoop.process_direct(content, session_key)
ProcessDirect ==
    /\ al_pc = "idle"
    /\ Len(turns) < MaxTurns
    /\ \E content \in Contents, session_key \in DirectKeys :
         StartTurn(InboundMessage("cli", "user", "direct", content),
                   "process_direct", session_key)
    /\ UNCHANGED inbound

\* A direct call of ToolRegistry.execute on the main agent's registry.
RegistryExecuteCall ==
    /\ reg_n < MaxExec
    /\ \E name \in ExecNames, params \in ExecParams, outcome \in ToolOutcomes :
         LET r == RegistryExecute(MainTools, name, params, outcome)
         IN /\ reg_last' = [name |-> name, params |-> params, outcome |-> outcome,
                            result |-> r.result, ran |-> r.ran]
            /\ reg_body' = IF r.ran
                           THEN Append(reg_body, [name |-> name, params |-> params])
                           ELSE reg_body
    /\ reg_n' = reg_n + 1
    /\ UNCHANGED <<svcVars, busVars, sessVars, tool_ctx, run_state, turns, alVars, subVars>>

\* ------------------------------------------------------------------------
\* SubagentManager (agent/subagent.py)
\* ------------------------------------------------------------------------

\* The number of spawn calls.
MaxSpawn == 2

DEFAULT_MAX_ITERATIONS == 15

\* The strings _run_agent_loop returns for a response without content and
\* when the iterations are used up.
NoOutputMessage == "Task completed with no output."
IterationLimitMessage == "Task completed but reached the maximum iteration limit."

\* The arguments spawn is called with: the task and the origin.
SpawnRequests ==
    {[task |-> "find TODOs", channel |-> "telegram", chat_id |-> "42"],
     [task |-> "summarise README", channel |-> "cli", chat_id |-> "direct"]}

\* What provider.chat returns to a subagent or raises (str(exc) for a
\* raise): a final response with or without content, or one tool call.
SubagentProviderOutcomes ==
    {[raised |-> FALSE, exc |-> "",
      response |-> LLMResponse(c, <<>>, "stop")] : c \in {NULL, "Found 3 TODOs."}}
    \cup
    {[raised |-> FALSE, exc |-> "",
      response |-> LLMResponse(NULL,
                               <<ToolCall(CallId(1), "read_file",
                                          JObj(<<KV("path", JStr("/tmp/a.txt"))>>))>>,
                               "tool_calls")],
     [raised |-> TRUE, exc |-> "provider down",
      response |-> LLMResponse(NULL, <<>>, "error")]}

\* Spawn arguments whose tasks make the model ask for the main agent's
\* tools: what provider.chat returns for them is a final response, a raise,
\* or a response that calls message and spawn.
DelegationRequests ==
    {[task |-> "tell the user", channel |-> "telegram", chat_id |-> "42"],
     [task |-> "delegate the search", channel |-> "cli", chat_id |-> "direct"]}

DelegationOutcomes ==
    {o \in SubagentProviderOutcomes : ~HasToolCalls(o.response)}
    \cup
    {[raised |-> FALSE, exc |-> "",
      response |-> LLMResponse(NULL,
                               <<ToolCall(CallId(1), "message",
                                          JObj(<<KV("content", JStr("hi"))>>)),
                                 ToolCall(CallId(2), "spawn",
                                          JObj(<<KV("task", JStr("find TODOs"))>>))>>,
                               "tool_calls")]}

\* What provider.chat may return to the subagent working on task.
ProviderOutcomesFor(task) ==
    IF task \in {r.task : r \in DelegationRequests}
    THEN DelegationOutcomes
    ELSE SubagentProviderOutcomes

\* SubagentManager._build_subagent_prompt(task): only the task is kept of
\* its text.
BuildSubagentPrompt(task) == "# Subagent\n\n## Task\n" \o task

\* SubagentManager._format_assistant_tool_message(response)
FormatAssistantToolMessage(response) ==
    [role |-> "assistant", content |-> OrElse(response.content, ""),
     tool_calls |-> FormatToolCalls(response)]

\* SubagentManager._announce_result: the InboundMessage it publishes.  The
\* dash of "1-2 sentences" is an en dash in the source.
AnnounceResult(task, result, origin, status) ==
    InboundMessage(
        "system", "subagent", origin.channel \o ":" \o origin.chat_id,
        "[Task " \o (IF status = "ok" THEN "completed successfully" ELSE "failed")
        \o "]\n\nTask:\n" \o task \o "\n\nResult:\n" \o result
        \o "\n\nSummarize this naturally for the user in 1-2 sentences.\n"
        \o "Do not mention internal agent mechanics.\n")

\* A background task as spawn creates it: _run_subagent up to its first
\* provider call.
NewSubagent(req) ==
    [task |-> req.task,
     origin |-> [channel |-> req.channel, chat_id |-> req.chat_id],
     pc |-> "chat",
     iteration |-> 1,
     messages |-> <<[role |-> "system", content |-> BuildSubagentPrompt(req.task)],
                    [role |-> "user", content |-> req.task]>>,
     ended |-> [kind |-> "none", value |-> ""],
     published |-> <<>>,
     raised |-> FALSE]

RECURSIVE ExecuteToolCalls(_, _, _)
\* _run_agent_loop, lines 165-180: the tool calls of a response executed in
\* order on the subagent's registry, a tool message appended for each.
\* outcomes[k] is what the body of the k-th call's tool does if invoked.
ExecuteToolCalls(messages, calls, outcomes) ==
    IF calls = <<>> THEN messages
    ELSE LET tc == Head(calls)
             r == RegistryExecute(SubagentTools, tc.name, tc.arguments,
                                  Head(outcomes))
         IN ExecuteToolCalls(
                Append(messages,
                       [role |-> "tool", tool_call_id |-> tc.id,
                        name |-> tc.name, content |-> r.result]),
                Tail(calls), Tail(outcomes))

\* A faulty end of _run_subagent without the except clause: an exception of
\* the loop leaves the task unannounced.
RunSubagentEndUncaught(i, kind, value) ==
    IF kind = "raised"
    THEN /\ subs' = [subs EXCEPT ![i].pc = "done", ![i].iteration = 0,
                                 ![i].messages = <<>>,
                                 ![i].ended = [kind |-> kind, value |-> value],
                                 ![i].raised = TRUE]
         /\ UNCHANGED inbound
    ELSE LET msg == AnnounceResult(subs[i].task, value, subs[i].origin, "ok")
         IN /\ subs' = [subs EXCEPT ![i].pc = "done", ![i].iteration = 0,
                                    ![i].messages = <<>>,
                                    ![i].ended = [kind |-> kind, value |-> value],
                                    ![i].published = Append(@, msg)]
            /\ inbound' = Append(inbound, msg)

\* _run_subagent, lines 114-139: _run_agent_loop has returned value (kind
\* "returned") or an exception with text value was raised in the try block
\* (kind "raised").  Either way the result is announced and the task ends
\* without an exception; its locals are gone.
RunSubagentEnd(i, kind, value) ==
    LET msg == IF kind = "raised"
               THEN AnnounceResult(subs[i].task, "Error: " \o value,
                                   subs[i].origin, "error")
               ELSE AnnounceResult(subs[i].task, value, subs[i].origin, "ok")
    IN /\ subs' = [subs EXCEPT ![i].pc = "done", ![i].iteration = 0,
                               ![i].messages = <<>>,
                               ![i].ended = [kind |-> kind, value |-> value],
                               ![i].published = Append(@, msg)]
       /\ inbound' = Append(inbound, msg)

\* A faulty spawn that does not record the task it creates.
SpawnUntracked ==
    /\ Len(subs) < MaxSpawn
    /\ \E req \in SpawnRequests : subs' = Append(subs, NewSubagent(req))
    /\ UNCHANGED <<svcVars, regVars, busVars, sessVars, tool_ctx, run_state, turns, alVars,
                   sub_running>>

\* SubagentManager.spawn(task, label, origin_channel, origin_chat_id)
Spawn ==
    /\ Len(subs) < MaxSpawn
    /\ \E req \in SpawnRequests : subs' = Append(subs, NewSubagent(req))
    /\ sub_running' = sub_running \cup {Len(subs) + 1}
    /\ UNCHANGED <<svcVars, regVars, busVars, sessVars, tool_ctx, run_state, turns, alVars>>

\* SubagentManager.spawn called with a task of DelegationRequests.
SpawnDelegating ==
    /\ Len(subs) < MaxSpawn
    /\ \E req \in DelegationRequests : subs' = Append(subs, NewSubagent(req))
    /\ sub_running' = sub_running \cup {Len(subs) + 1}
    /\ UNCHANGED <<svcVars, regVars, busVars, sessVars, tool_ctx, run_state, turns,
                   alVars>>

\* _run_agent_loop, lines 150-186: one iteration of subagent i, from its
\* provider.chat call to the next one.  The tool calls of the response are
\* executed within the step: execute returns its refusals without awaiting
\* anything, and the tool bodies share no state with the other tasks.
SubagentIteration(i) ==
    /\ subs[i].pc = "chat"
    /\ \E o \in ProviderOutcomesFor(subs[i].task) :
         IF o.raised
         THEN RunSubagentEnd(i, "raised", o.exc)
         ELSE IF ~HasToolCalls(o.response)
         THEN RunSubagentEnd(i, "returned",
                             OrElse(o.response.content, NoOutputMessage))
         ELSE \E outcomes \in [DOMAIN o.response.tool_calls -> ToolOutcomes] :
                IF subs[i].iteration < DEFAULT_MAX_ITERATIONS
                THEN /\ subs' = [subs EXCEPT
                                   ![i].messages =
                                       ExecuteToolCalls(
                                           Append(@, FormatAssistantToolMessage(
                                                         o.response)),
                                           o.response.tool_calls, outcomes),
                                   ![i].iteration = @ + 1]
                     /\ UNCHANGED inbound
                ELSE RunSubagentEnd(i, "returned", IterationLimitMessage)
    /\ UNCHANGED <<svcVars, regVars, outbound, sessVars, tool_ctx, run_state, turns, alVars,
                   sub_running>>

\* The done callback spawn attaches to the task: _running_tasks.pop(task_id).
SubagentDoneCallback(i) ==
    /\ subs[i].pc = "done"
    /\ i \in sub_running
    /\ sub_running' = sub_running \ {i}
    /\ UNCHANGED <<svcVars, regVars, busVars, sessVars, tool_ctx, run_state, turns, alVars,
                   subs>>

\* SubagentManager.get_running_count()
GetRunningCount == Cardinality(sub_running)

\* ------------------------------------------------------------------------
\* The routing context of the stateful tools (agent/loop.py, tools/spawn.py)
\* ------------------------------------------------------------------------

\* A direct call _update_tool_context(channel, chat_id), as _handle_message
\* makes it at line 136 with the channel and chat_id of its message.
UpdateToolContextCall ==
    /\ \E m \in ChannelMessages :
         LET u == UpdateToolContext(tool_ctx, m.channel, m.chat_id)
         IN /\ tool_ctx' = u.ctx
            /\ ctx_last' = <<[channel |-> m.channel, chat_id |-> m.chat_id,
                              raised |-> u.raised, exc |-> u.exc]>>
    /\ UNCHANGED <<regVars, busVars, sessVars, run_state, turns, alVars, subVars,
                   dispVars, cronVars, starts, extVars>>

\* SpawnTool.execute(task=task): SubagentManager.spawn is called with the
\* origin the tool holds, _origin_channel and _origin_chat_id.
SpawnToolExecute ==
    /\ Len(subs) < MaxSpawn
    /\ \E req \in SpawnRequests :
         subs' = Append(subs, NewSubagent([task |-> req.task,
                                           channel |-> tool_ctx.spawn.channel,
                                           chat_id |-> tool_ctx.spawn.chat_id]))
    /\ sub_running' = sub_running \cup {Len(subs) + 1}
    /\ UNCHANGED <<svcVars, regVars, busVars, sessVars, tool_ctx, run_state, turns,
                   alVars>>

\* ------------------------------------------------------------------------
\* MessageBus (bus/queue.py)
\* ------------------------------------------------------------------------

\* The number of publish_outbound calls, of subscribe calls and of calls of
\* each start().
MaxDispatch == 2
MaxSubs == 2
MaxStarts == 2

\* The channels outbound messages are addressed to.
BusChannels == {"telegram", "cli"}

\* The arguments of the subscribe calls.
SubscribeRequests ==
    {[channel |-> "telegram", callback |-> "telegram.send"],
     [channel |-> "telegram", callback |-> "audit.record"],
     [channel |-> "cli", callback |-> "cli.print"]}

\* The messages publish_outbound is called with.
OutboundMessages ==
    {OutboundMessage("telegram", "42", "hello"),
     OutboundMessage("cli", "direct", "4")}

\* MessageBus.start() on a bus with the given run flag and dispatcher
\* tasks: the flag and the tasks it leaves.
BusStartOp(running, tasks) ==
    IF running
    THEN [running |-> running, tasks |-> tasks]
    ELSE [running |-> TRUE, tasks |-> Append(tasks, "top")]

\* MessageBus._safe_call(callback, msg): the callback is awaited; raises
\* tells whether it raises.  The exception is logged and goes no further.
SafeCall(callback, msg, raises) ==
    [callback |-> callback, msg |-> msg, raised |-> raises]

\* A faulty fan-out that awaits the callbacks one after the other without
\* an error boundary: the first exception ends it.
FanoutUnguarded(msg, callbacks, raising) ==
    LET first == IF raising = {} THEN Len(callbacks)
                 ELSE CHOOSE k \in raising : \A j \in raising : k <= j
    IN [k \in 1..first |-> SafeCall(callbacks[k], msg, k \in raising)]

\* MessageBus._fanout(msg, callbacks): one _safe_call per callback, run
\* together by gather(return_exceptions=True).  raising holds the positions
\* of the callbacks that raise; the result is the calls made.
Fanout(msg, callbacks, raising) ==
    [k \in DOMAIN callbacks |-> SafeCall(callbacks[k], msg, k \in raising)]

\* MessageBus.start()
BusStart ==
    /\ starts.bus < MaxStarts
    /\ LET b == BusStartOp(bus_running, dispatchers)
       IN /\ bus_running' = b.running
          /\ dispatchers' = b.tasks
    /\ starts' = [starts EXCEPT !.bus = @ + 1]
    /\ UNCHANGED <<agentVars, extVars, cronVars, busVars, subscribers, dispatched>>

\* MessageBus.subscribe(channel, callback)
Subscribe ==
    /\ Len(subscribers["telegram"]) + Len(subscribers["cli"]) < MaxSubs
    /\ \E r \in SubscribeRequests :
         subscribers' = [subscribers EXCEPT ![r.channel] = Append(@, r.callback)]
    /\ UNCHANGED <<agentVars, extVars, starts, cronVars, busVars, bus_running, dispatchers, dispatched>>

\* MessageBus.publish_outbound(msg): the put waits while the queue is full.
PublishOutbound ==
    /\ ~QueueFull(outbound, OutboundSize)
    /\ Len(outbound) + Len(dispatched) < MaxDispatch
    /\ \E m \in OutboundMessages : outbound' = Append(outbound, m)
    /\ UNCHANGED <<agentVars, extVars, starts, cronVars, inbound, dispVars>>

\* _dispatch_loop, line 105: dispatcher d tests the run flag and either
\* goes on to wait for a message or ends.
DispatchLoopTop(d) ==
    /\ dispatchers[d] = "top"
    /\ dispatchers' = [dispatchers EXCEPT ![d] = IF bus_running THEN "get" ELSE "done"]
    /\ UNCHANGED <<agentVars, extVars, starts, cronVars, busVars, bus_running, subscribers, dispatched>>

\* _dispatch_loop, lines 106-123: dispatcher d takes the next outbound
\* message and with it one round of the loop: without callbacks for the
\* channel the message is dropped with a warning, else it is fanned out.
DispatchMessage(d) ==
    /\ dispatchers[d] = "get"
    /\ outbound # <<>>
    /\ LET msg == Head(outbound)
           callbacks == subscribers[msg.channel]
       IN \E raising \in SUBSET DOMAIN callbacks :
            dispatched' = Append(dispatched,
                                 [msg |-> msg, callbacks |-> callbacks,
                                  calls |-> IF callbacks = <<>> THEN <<>>
                                            ELSE Fanout(msg, callbacks, raising),
                                  by |-> d])
    /\ outbound' = Tail(outbound)
    /\ dispatchers' = [dispatchers EXCEPT ![d] = "top"]
    /\ UNCHANGED <<agentVars, extVars, starts, cronVars, inbound, bus_running, subscribers>>

\* MessageBus.stop(): the run flag is cleared and nothing else is done; the
\* dispatcher tasks are neither cancelled nor woken.
BusStop ==
    /\ IF bus_running
       THEN /\ bus_running' = FALSE
            /\ bus_stop_mark' = <<Len(dispatched) + Len(outbound)>>
       ELSE UNCHANGED <<bus_running, bus_stop_mark>>
    /\ UNCHANGED <<agentVars, hbVars, chanVars, storeVars, shellVars, starts,
                   cronVars, busVars, dispatchers, subscribers, dispatched>>

\* ------------------------------------------------------------------------
\* CronService (scheduler/service.py, scheduler/types.py)
\* ------------------------------------------------------------------------

\* The number of add_job calls, the last instant of the clock and the
\* number of callback invocations.
MaxJobs == 2
MaxTime == 1
MaxRuns == 3

\* The least time the scheduler loop sleeps, in seconds; the model's clock
\* counts seconds.
DEFAULT_TICK_INTERVAL_S == 1

\* A timestamp that is None.  The code tests timestamps by truth value, so
\* that None and 0 are treated alike.
NoTime == 0

\* CronSchedule(kind, at_ms, every_ms, expr); an unset field is NoTime or "".
CronSchedule(kind, at_ms, every_ms, expr) ==
    [kind |-> kind, at_ms |-> at_ms, every_ms |-> every_ms, expr |-> expr]

\* The cron expression of the model: every odd second (croniter reads a
\* sixth field as seconds).
EveryOtherSecond == "* * * * * 1-59/2"

\* croniter(expr, base).get_next(): the first instant of the expression
\* strictly after base.
CronNext(expr, base) == ((base + 1) \div 2) * 2 + 1

\* A faulty compute_next_run that returns the base itself for an interval
\* schedule.
ComputeNextRunAtBase(schedule, base_ms) ==
    IF schedule.kind = "at"
    THEN IF schedule.at_ms # NoTime /\ schedule.at_ms > base_ms
         THEN schedule.at_ms ELSE NoTime
    ELSE IF schedule.kind = "every"
    THEN base_ms
    ELSE IF schedule.kind = "cron" /\ schedule.expr = EveryOtherSecond
    THEN CronNext(schedule.expr, base_ms)
    ELSE NoTime

\* compute_next_run(schedule, base_ms)
ComputeNextRun(schedule, base_ms) ==
    IF schedule.kind = "at"
    THEN IF schedule.at_ms # NoTime /\ schedule.at_ms > base_ms
         THEN schedule.at_ms ELSE NoTime
    ELSE IF schedule.kind = "every"
    THEN IF schedule.every_ms = NoTime \/ schedule.every_ms <= 0
         THEN NoTime ELSE base_ms + schedule.every_ms
    ELSE IF schedule.kind = "cron" /\ schedule.expr = EveryOtherSecond
    THEN CronNext(schedule.expr, base_ms)
    ELSE NoTime

\* The arguments of the add_job calls: schedule, payload message and
\* delete_after_run.
JobRequests ==
    {[schedule |-> CronSchedule("at", 1, NoTime, ""), message |-> "ping",
      delete_after_run |-> TRUE],
     [schedule |-> CronSchedule("at", 1, NoTime, ""), message |-> "remind",
      delete_after_run |-> FALSE],
     [schedule |-> CronSchedule("every", NoTime, 1, ""), message |-> "poll",
      delete_after_run |-> FALSE],
     [schedule |-> CronSchedule("cron", NoTime, NoTime, EveryOtherSecond),
      message |-> "report", delete_after_run |-> FALSE]}

\* What the callback does with a job: it returns, or raises an exception
\* with the given text.
CallbackOutcomes ==
    {[raised |-> FALSE, exc |-> ""], [raised |-> TRUE, exc |-> "agent down"]}

\* The CronJob add_job builds at time t.  Of the fields the scheduler only
\* writes (name, created_at_ms, updated_at_ms, last_run_at_ms, run_count)
\* none is kept.
CronJob(id, req, t) ==
    [id |-> id, enabled |-> TRUE, schedule |-> req.schedule,
     message |-> req.message, delete_after_run |-> req.delete_after_run,
     next_run_at_ms |-> ComputeNextRun(req.schedule, t),
     last_status |-> NULL, last_error |-> NULL]

\* CronStore.dump of the store: the jobs as they are written to the file.
StoreSnapshot(heap, store) == [k \in DOMAIN store |-> heap[store[k]]]

\* A faulty _due_jobs that lists the due jobs newest first.
DueJobsNewestFirst(heap, store, t) ==
    LET due == SelectSeq(store, LAMBDA id : /\ heap[id].enabled
                                            /\ heap[id].next_run_at_ms # NoTime
                                            /\ t >= heap[id].next_run_at_ms)
    IN [k \in DOMAIN due |-> due[Len(due) + 1 - k]]

\* CronService._due_jobs(now)
DueJobs(heap, store, t) ==
    SelectSeq(store, LAMBDA id : /\ heap[id].enabled
                                 /\ heap[id].next_run_at_ms # NoTime
                                 /\ t >= heap[id].next_run_at_ms)

\* CronService._recompute_all() at time t
RecomputeAll(heap, store, t) ==
    [id \in DOMAIN heap |->
        IF id \in Range(store) /\ heap[id].enabled
        THEN [heap[id] EXCEPT !.next_run_at_ms = ComputeNextRun(heap[id].schedule, t)]
        ELSE heap[id]]

\* CronService._compute_sleep_interval(now), in seconds
ComputeSleepInterval(heap, store, t) ==
    LET times == {heap[id].next_run_at_ms :
                    id \in {j \in Range(store) : /\ heap[j].enabled
                                                 /\ heap[j].next_run_at_ms # NoTime}}
    IN IF times = {} THEN DEFAULT_TICK_INTERVAL_S
       ELSE LET delay == (CHOOSE m \in times : \A x \in times : m <= x) - t
            IN IF delay > DEFAULT_TICK_INTERVAL_S THEN delay
               ELSE DEFAULT_TICK_INTERVAL_S

\* A faulty _execute_job without the except clause: nothing is recorded
\* for a callback that raises.
ExecuteJobUncaught(heap, store, id, outcome) ==
    IF outcome.raised
    THEN [heap |-> heap, store |-> store, propagated |-> TRUE]
    ELSE LET job == [heap[id] EXCEPT !.last_status = "ok",
                                     !.last_error = NULL]
         IN IF job.schedule.kind = "at"
            THEN IF job.delete_after_run
                 THEN [heap |-> [heap EXCEPT ![id] = job],
                       store |-> SelectSeq(store, LAMBDA j : j # id),
                       propagated |-> FALSE]
                 ELSE [heap |-> [heap EXCEPT ![id] = [job EXCEPT !.enabled = FALSE]],
                       store |-> store, propagated |-> FALSE]
            ELSE [heap |-> [heap EXCEPT ![id] = job], store |-> store,
                  propagated |-> FALSE]

\* CronService._execute_job(job), lines 203-222, once the callback awaited
\* at line 204 has returned or raised: the job objects and the store it
\* leaves, and whether an exception leaves the function.
ExecuteJob(heap, store, id, outcome) ==
    LET job == [heap[id] EXCEPT
                  !.last_status = IF outcome.raised THEN "error" ELSE "ok",
                  !.last_error = IF outcome.raised THEN outcome.exc ELSE NULL]
    IN IF job.schedule.kind = "at"
       THEN IF job.delete_after_run
            THEN [heap |-> [heap EXCEPT ![id] = job],
                  store |-> SelectSeq(store, LAMBDA j : j # id),
                  propagated |-> FALSE]
            ELSE [heap |-> [heap EXCEPT ![id] = [job EXCEPT !.enabled = FALSE]],
                  store |-> store, propagated |-> FALSE]
       ELSE [heap |-> [heap EXCEPT ![id] = job], store |-> store,
             propagated |-> FALSE]

RECURSIVE TotalFired(_)
\* The number of callback invocations made so far.
TotalFired(runs) ==
    IF runs = <<>> THEN 0 ELSE Head(runs).fired + TotalFired(Tail(runs))

\* The callback is invoked for job id.
Fired(runs, id) == [runs EXCEPT ![id].fired = @ + 1]

\* The callback invoked for job id ends with the given outcome.
Ended(runs, id, outcome) ==
    [runs EXCEPT ![id].ended = IF outcome.raised THEN "raised" ELSE "returned"]

\* The state CronService.start() reads and writes.
CronState ==
    [running |-> cron_running, loaded |-> cron_loaded, heap |-> cron_heap,
     store |-> cron_store, disk |-> cron_disk, tasks |-> cron_tasks,
     pc |-> cron_pc]

\* A faulty start without the test of the run flag.
CronStartAlways(c, t) ==
    [c EXCEPT !.running = TRUE,
              !.loaded = TRUE,
              !.heap = RecomputeAll(c.disk, [k \in DOMAIN c.disk |-> k], t),
              !.store = [k \in DOMAIN c.disk |-> k],
              !.tasks = [scheduler |-> c.tasks.scheduler + 1,
                         flusher |-> c.tasks.flusher + 1],
              !.pc = "top"]

\* CronService.start() at time t: the store is loaded from the file, every
\* next_run_at_ms is recomputed and the two tasks are created, unless the
\* service runs already.
CronStartOp(c, t) ==
    IF c.running
    THEN c
    ELSE [c EXCEPT !.running = TRUE,
                   !.loaded = TRUE,
                   !.heap = RecomputeAll(c.disk, [k \in DOMAIN c.disk |-> k], t),
                   !.store = [k \in DOMAIN c.disk |-> k],
                   !.tasks = [scheduler |-> c.tasks.scheduler + 1,
                              flusher |-> c.tasks.flusher + 1],
                   !.pc = "top"]

\* CronService.start()
CronStart ==
    /\ starts.cron < MaxStarts
    /\ starts' = [starts EXCEPT !.cron = @ + 1]
    /\ LET c == CronStartOp(CronState, now)
       IN /\ cron_running' = c.running
          /\ cron_loaded' = c.loaded
          /\ cron_heap' = c.heap
          /\ cron_store' = c.store
          /\ cron_disk' = c.disk
          /\ cron_tasks' = c.tasks
          /\ cron_pc' = c.pc
    /\ UNCHANGED <<agentVars, extVars, busVars, dispVars, now, cron_wakeup, cron_tick_now,
                   cron_cur, cron_due, cron_sleep_until, cron_runs>>

\* CronService.stop(): the run flag is cleared, the two tasks are cancelled
\* and awaited, and the store is saved.  The cancellation reaches the loop
\* at the await it is suspended in; a callback in progress is cancelled
\* with it, and CancelledError, which is no Exception, passes _execute_job
\* and ends _scheduler_loop.
CronStop ==
    /\ IF cron_running
       THEN /\ cron_running' = FALSE
            /\ cron_pc' = "off"
            /\ cron_cur' = 0
            /\ cron_due' = <<>>
            /\ cron_tick_now' = 0
            /\ cron_disk' = StoreSnapshot(cron_heap, cron_store)
       ELSE UNCHANGED <<cron_running, cron_pc, cron_cur, cron_due, cron_tick_now,
                        cron_disk>>
    /\ UNCHANGED <<agentVars, extVars, starts, busVars, dispVars, now, cron_loaded,
                   cron_heap, cron_store, cron_tasks, cron_wakeup, cron_sleep_until,
                   cron_runs>>

\* Time passes.
Advance ==
    /\ now < MaxTime
    /\ now' = now + 1
    /\ UNCHANGED <<agentVars, extVars, starts, busVars, dispVars, cron_running, cron_loaded,
                   cron_heap, cron_store, cron_disk, cron_tasks, cron_wakeup,
                   cron_pc, cron_tick_now, cron_cur, cron_due, cron_sleep_until,
                   cron_runs>>

\* The arguments of add_job calls that create interval jobs only, one
\* every second and one every two seconds.
IntervalRequests ==
    {[schedule |-> CronSchedule("every", NoTime, 1, ""), message |-> "poll",
      delete_after_run |-> FALSE],
     [schedule |-> CronSchedule("every", NoTime, 2, ""), message |-> "digest",
      delete_after_run |-> FALSE]}

\* The arguments of add_job calls that create a one-shot job which is kept
\* after its run, or an interval job.
OneShotRequests ==
    {[schedule |-> CronSchedule("at", 1, NoTime, ""), message |-> "remind",
      delete_after_run |-> FALSE],
     [schedule |-> CronSchedule("every", NoTime, 1, ""), message |-> "poll",
      delete_after_run |-> FALSE]}

\* CronService.add_job(name, schedule, payload, delete_after_run) on a
\* loaded store, with arguments of reqs: the job is appended, the store
\* saved and the loop woken.
AddJobFrom(reqs) ==
    /\ cron_loaded
    /\ Len(cron_heap) < MaxJobs
    /\ \E req \in reqs :
         LET job == CronJob(Len(cron_heap) + 1, req, now)
         IN /\ cron_heap' = Append(cron_heap, job)
            /\ cron_store' = Append(cron_store, job.id)
            /\ cron_disk' = StoreSnapshot(Append(cron_heap, job),
                                          Append(cron_store, job.id))
    /\ cron_runs' = Append(cron_runs, [fired |-> 0, ended |-> "none"])
    /\ cron_wakeup' = TRUE
    /\ UNCHANGED <<agentVars, extVars, starts, busVars, dispVars, now, cron_running, cron_loaded,
                   cron_tasks, cron_pc, cron_tick_now, cron_cur, cron_due,
                   cron_sleep_until>>

\* add_job with the arguments of JobRequests.
AddJob == AddJobFrom(JobRequests)

\* add_job with the arguments of IntervalRequests.
AddIntervalJob == AddJobFrom(IntervalRequests)

\* add_job with the arguments of OneShotRequests.
AddOneShotJob == AddJobFrom(OneShotRequests)

\* CronService.run_job(job_id) for a job of the store: the job is executed
\* whatever its schedule, the store saved and the loop woken.
RunJob(id) ==
    /\ cron_loaded
    /\ id \in Range(cron_store)
    /\ TotalFired(cron_runs) < MaxRuns
    /\ \E outcome \in CallbackOutcomes :
         LET r == ExecuteJob(cron_heap, cron_store, id, outcome)
         IN /\ cron_heap' = r.heap
            /\ cron_store' = r.store
            /\ cron_disk' = StoreSnapshot(r.heap, r.store)
            /\ cron_runs' = Ended(Fired(cron_runs, id), id, outcome)
    /\ cron_wakeup' = TRUE
    /\ UNCHANGED <<agentVars, extVars, starts, busVars, dispVars, now, cron_running, cron_loaded,
                   cron_tasks, cron_pc, cron_tick_now, cron_cur, cron_due,
                   cron_sleep_until>>

\* CronService.remove_job(job_id) on a loaded store: the job is taken off
\* the list; if the list got shorter the store is saved and the loop woken.
RemoveJob(id) ==
    /\ cron_loaded
    /\ LET store == SelectSeq(cron_store, LAMBDA j : j # id)
       IN IF Len(store) < Len(cron_store)
          THEN /\ cron_store' = store
               /\ cron_disk' = StoreSnapshot(cron_heap, store)
               /\ cron_wakeup' = TRUE
          ELSE UNCHANGED <<cron_store, cron_disk, cron_wakeup>>
    /\ UNCHANGED <<agentVars, extVars, starts, busVars, dispVars, now, cron_running,
                   cron_loaded, cron_heap, cron_tasks, cron_pc, cron_tick_now,
                   cron_cur, cron_due, cron_sleep_until, cron_runs>>

\* _scheduler_loop, lines 160-173: a round of the loop begins, at the start
\* of the task or when the wait ends by the wakeup event or by its timeout
\* (the event is then cleared).  The due set is collected; if it is empty
\* the loop goes to wait again, else _run_jobs awaits the callback of the
\* first due job.
Tick ==
    /\ cron_running
    /\ \/ cron_pc = "top"
       \/ cron_pc = "wait" /\ (cron_wakeup \/ now >= cron_sleep_until)
    /\ LET due == DueJobs(cron_heap, cron_store, now)
           woken == IF cron_pc = "wait" THEN FALSE ELSE cron_wakeup
       IN IF due = <<>>
          THEN /\ cron_pc' = "wait"
               /\ cron_sleep_until' =
                    now + ComputeSleepInterval(cron_heap, cron_store, now)
               /\ cron_wakeup' = woken
               /\ cron_tick_now' = 0
               /\ UNCHANGED <<cron_cur, cron_due, cron_runs>>
          ELSE /\ TotalFired(cron_runs) < MaxRuns
               /\ cron_pc' = "callback"
               /\ cron_cur' = Head(due)
               /\ cron_due' = Tail(due)
               /\ cron_runs' = Fired(cron_runs, Head(due))
               /\ cron_wakeup' = woken
               /\ cron_tick_now' = now
               /\ UNCHANGED cron_sleep_until
    /\ UNCHANGED <<agentVars, extVars, starts, busVars, dispVars, now, cron_running, cron_loaded,
                   cron_heap, cron_store, cron_disk, cron_tasks>>

\* _execute_job and _run_jobs, lines 192-222: the callback of the current
\* job returns or raises and the job's outcome is recorded.  With due jobs
\* left the callback of the next one is awaited; else every next_run_at_ms
\* is recomputed, the wakeup event is set, the sleep interval is computed
\* with the local now of the round, and the loop waits.  An exception that
\* left _execute_job would end the loop (line 177).
JobReturns ==
    /\ cron_pc = "callback"
    /\ \E outcome \in CallbackOutcomes :
         LET r == ExecuteJob(cron_heap, cron_store, cron_cur, outcome)
             ended == Ended(cron_runs, cron_cur, outcome)
         IN IF r.propagated
            THEN /\ cron_pc' = "crashed"
                 /\ cron_runs' = ended
                 /\ cron_heap' = r.heap
                 /\ cron_store' = r.store
                 /\ cron_cur' = 0
                 /\ cron_due' = <<>>
                 /\ cron_tick_now' = 0
                 /\ UNCHANGED <<cron_wakeup, cron_sleep_until>>
            ELSE IF cron_due # <<>>
            THEN /\ TotalFired(cron_runs) < MaxRuns
                 /\ cron_heap' = r.heap
                 /\ cron_store' = r.store
                 /\ cron_cur' = Head(cron_due)
                 /\ cron_due' = Tail(cron_due)
                 /\ cron_runs' = Fired(ended, Head(cron_due))
                 /\ UNCHANGED <<cron_pc, cron_wakeup, cron_sleep_until,
                                cron_tick_now>>
            ELSE LET heap == RecomputeAll(r.heap, r.store, now)
                 IN /\ cron_heap' = heap
                    /\ cron_store' = r.store
                    /\ cron_cur' = 0
                    /\ cron_runs' = ended
                    /\ cron_wakeup' = TRUE
                    /\ cron_pc' = "wait"
                    /\ cron_sleep_until' =
                         now + ComputeSleepInterval(heap, r.store, cron_tick_now)
                    /\ cron_tick_now' = 0
                    /\ UNCHANGED cron_due
    /\ UNCHANGED <<agentVars, extVars, starts, busVars, dispVars, now, cron_running, cron_loaded,
                   cron_disk, cron_tasks>>

\* _flush_loop: the flusher saves the store.
Flush ==
    /\ cron_running
    /\ cron_tasks.flusher > 0
    /\ cron_disk' = StoreSnapshot(cron_heap, cron_store)
    /\ UNCHANGED <<agentVars, extVars, starts, busVars, dispVars, now, cron_running, cron_loaded,
                   cron_heap, cron_store, cron_tasks, cron_wakeup, cron_pc,
                   cron_tick_now, cron_cur, cron_due, cron_sleep_until, cron_runs>>

\* ------------------------------------------------------------------------
\* HeartbeatService (heartbeat/service.py)
\* ------------------------------------------------------------------------

\* The number of _run_loop tasks created and of callback invocations.
MaxLoops == 2
MaxBeats == 2

\* A line of text is a sequence of pieces: a space, or one of the strings
\* below, each standing for itself.
Space == " "
SkipPatterns == {"- [ ]", "* [ ]", "- [x]", "* [x]"}

RECURSIVE LStrip(_)
\* str.lstrip() of a line
LStrip(line) ==
    IF line # <<>> /\ Head(line) = Space THEN LStrip(Tail(line)) ELSE line

RECURSIVE RStrip(_)
\* str.rstrip() of a line
RStrip(line) ==
    IF line # <<>> /\ line[Len(line)] = Space
    THEN RStrip(SubSeq(line, 1, Len(line) - 1))
    ELSE line

\* str.strip() of a line
Strip(line) == RStrip(LStrip(line))

\* line.startswith(prefix), for a prefix that is one piece
StartsWith(line, prefix) == line # <<>> /\ Head(line) = prefix

\* HEARTBEAT.md as the service finds it: whether the path exists, whether
\* read_text succeeds, and the lines of the text.
HeartbeatFile(exists, readable, lines) ==
    [exists |-> exists, readable |-> readable, lines |-> lines]

AbsentFile == HeartbeatFile(FALSE, FALSE, <<>>)

HeartbeatFiles ==
    {AbsentFile,
     \* a file read_text fails on
     HeartbeatFile(TRUE, FALSE, << <<"buy milk">> >>),
     \* an empty file
     HeartbeatFile(TRUE, TRUE, <<>>),
     \* the template: a header, a blank line, empty checkboxes, a comment
     HeartbeatFile(TRUE, TRUE,
         << <<"#", Space, "Tasks">>, <<Space>>, <<Space, "- [ ]", Space>>,
            <<"* [x]">>, <<"<!--", Space, "add tasks above", Space, "-->">> >>),
     \* a header and a checkbox with a task
     HeartbeatFile(TRUE, TRUE,
         << <<"#", Space, "Tasks">>, <<"- [ ]", Space, "buy milk">> >>),
     \* a line of plain text
     HeartbeatFile(TRUE, TRUE, << <<Space, "buy milk">> >>)}

\* HeartbeatService._read_heartbeat(): the text read, or None (ok = FALSE)
\* for an absent file and for a read that raises.
ReadHeartbeat(file) ==
    IF ~file.exists THEN [ok |-> FALSE, lines |-> <<>>]
    ELSE IF ~file.readable THEN [ok |-> FALSE, lines |-> <<>>]
    ELSE [ok |-> TRUE, lines |-> file.lines]

\* A faulty is_heartbeat_actionable that takes every non-blank line for a
\* task.
IsHeartbeatActionableAnyLine(content) ==
    /\ content.ok
    /\ content.lines # <<>>
    /\ \E k \in DOMAIN content.lines : Strip(content.lines[k]) # <<>>

\* is_heartbeat_actionable(content)
IsHeartbeatActionable(content) ==
    /\ content.ok
    /\ content.lines # <<>>
    /\ \E k \in DOMAIN content.lines :
         LET line == Strip(content.lines[k])
         IN /\ line # <<>>
            /\ ~StartsWith(line, "#")
            /\ ~StartsWith(line, "<!--")
            /\ ~(Len(line) = 1 /\ line[1] \in SkipPatterns)

\* What the heartbeat callback does once invoked: it returns a reply or
\* raises an exception.
HeartbeatOutcomes == {"returned", "raised"}

\* The tasks that have not ended.
LiveLoops == {i \in DOMAIN hb_tasks : hb_tasks[i].pc # "done"}

\* The state HeartbeatService.start() and stop() read and write.
HeartbeatState ==
    [running |-> hb_running, tasks |-> hb_tasks, loop_task |-> hb_loop_task]

\* A faulty start without the test of the run flag.
HbStartAlways(h) ==
    [h EXCEPT !.running = TRUE,
              !.tasks = Append(h.tasks, [pc |-> "sleep", cancel |-> FALSE]),
              !.loop_task = Len(h.tasks) + 1]

\* HeartbeatService.start() with config.enabled (the default), lines
\* 133-137.
HbStartOp(h) ==
    IF h.running
    THEN h
    ELSE [h EXCEPT !.running = TRUE,
                   !.tasks = Append(h.tasks, [pc |-> "sleep", cancel |-> FALSE]),
                   !.loop_task = Len(h.tasks) + 1]

\* HeartbeatService.stop() up to its await, lines 144-150: the flag is
\* cleared and the task cancelled; cancel() of a task that has ended does
\* nothing.
HbStopOp(h) ==
    IF ~h.running
    THEN h
    ELSE [h EXCEPT !.running = FALSE,
                   !.tasks = IF h.loop_task # 0 /\ h.tasks[h.loop_task].pc # "done"
                             THEN [h.tasks EXCEPT ![h.loop_task].cancel = TRUE]
                             ELSE h.tasks]

\* HeartbeatService.start()
HbStart ==
    /\ hb_running \/ Len(hb_tasks) < MaxLoops
    /\ LET h == HbStartOp(HeartbeatState)
       IN /\ hb_running' = h.running
          /\ hb_tasks' = h.tasks
          /\ hb_loop_task' = h.loop_task
    /\ UNCHANGED <<hb_stops, hb_file, hb_calls>>
    /\ UNCHANGED <<coreVars, chanVars, libVars>>

\* HeartbeatService.stop() is called and reaches await self._loop_task.
HbStop ==
    /\ LET h == HbStopOp(HeartbeatState)
       IN /\ hb_running' = h.running
          /\ hb_tasks' = h.tasks
          /\ hb_loop_task' = h.loop_task
    /\ hb_stops' = IF hb_running /\ hb_loop_task # 0
                   THEN hb_stops \cup {hb_loop_task}
                   ELSE hb_stops
    /\ UNCHANGED <<hb_file, hb_calls>>
    /\ UNCHANGED <<coreVars, chanVars, libVars>>

\* stop() returns: the task it awaits has ended.
HbStopReturns(i) ==
    /\ i \in hb_stops
    /\ hb_tasks[i].pc = "done"
    /\ hb_stops' = hb_stops \ {i}
    /\ UNCHANGED <<hb_running, hb_tasks, hb_loop_task, hb_file, hb_calls>>
    /\ UNCHANGED <<coreVars, chanVars, libVars>>

\* The index in hb_calls of the invocation task i awaits.
CallOf(i) ==
    CHOOSE k \in DOMAIN hb_calls : hb_calls[k].by = i /\ hb_calls[k].state = "running"

\* One heartbeat cycle, _tick lines 187-196, up to the await of the
\* callback: the file is read, and the callback is invoked if the text is
\* actionable.
TickInvokes == IsHeartbeatActionable(ReadHeartbeat(hb_file))

\* _run_loop, lines 174-177: the sleep of task i ends.  The loop ends if
\* the flag is cleared; else a cycle runs, and the task awaits the callback
\* or sleeps again.
HbWake(i) ==
    /\ hb_tasks[i].pc = "sleep"
    /\ ~hb_tasks[i].cancel
    /\ IF ~hb_running
       THEN /\ hb_tasks' = [hb_tasks EXCEPT ![i].pc = "done"]
            /\ UNCHANGED hb_calls
       ELSE IF TickInvokes
       THEN /\ Len(hb_calls) < MaxBeats
            /\ hb_tasks' = [hb_tasks EXCEPT ![i].pc = "callback"]
            /\ hb_calls' = Append(hb_calls,
                   [by |-> i, file |-> hb_file, state |-> "running"])
       ELSE UNCHANGED <<hb_tasks, hb_calls>>
    /\ UNCHANGED <<hb_running, hb_loop_task, hb_stops, hb_file>>
    /\ UNCHANGED <<coreVars, chanVars, libVars>>

\* The callback awaited by task i returns or raises (lines 196-207); the
\* loop sleeps again, or ends if the flag was cleared meanwhile.
HbCallbackEnds(i) ==
    /\ hb_tasks[i].pc = "callback"
    /\ ~hb_tasks[i].cancel
    /\ \E outcome \in HeartbeatOutcomes :
         hb_calls' = [hb_calls EXCEPT ![CallOf(i)].state = outcome]
    /\ hb_tasks' = [hb_tasks EXCEPT
                       ![i].pc = IF hb_running THEN "sleep" ELSE "done"]
    /\ UNCHANGED <<hb_running, hb_loop_task, hb_stops, hb_file>>
    /\ UNCHANGED <<coreVars, chanVars, libVars>>

\* The cancellation requested by stop() reaches task i: CancelledError is
\* raised at the await the task is suspended in.  In the sleep it ends the
\* loop (line 178).  In the callback it is raised inside the callback, is
\* not caught by the except Exception of _tick and ends the loop as well.
HbCancelled(i) ==
    /\ hb_tasks[i].pc # "done"
    /\ hb_tasks[i].cancel
    /\ hb_calls' = IF hb_tasks[i].pc = "callback"
                   THEN [hb_calls EXCEPT ![CallOf(i)].state = "cancelled"]
                   ELSE hb_calls
    /\ hb_tasks' = [hb_tasks EXCEPT ![i].pc = "done"]
    /\ UNCHANGED <<hb_running, hb_loop_task, hb_stops, hb_file>>
    /\ UNCHANGED <<coreVars, chanVars, libVars>>

\* HeartbeatService.trigger_now(): one cycle run by the caller, with the
\* callback awaited to its end.
HbTriggerNow ==
    /\ IF TickInvokes
       THEN /\ Len(hb_calls) < MaxBeats
            /\ \E outcome \in HeartbeatOutcomes :
                 hb_calls' = Append(hb_calls,
                     [by |-> 0, file |-> hb_file, state |-> outcome])
       ELSE UNCHANGED hb_calls
    /\ UNCHANGED <<hb_running, hb_tasks, hb_loop_task, hb_stops, hb_file>>
    /\ UNCHANGED <<coreVars, chanVars, libVars>>

\* The user or the agent rewrites, removes or protects HEARTBEAT.md.
HbWriteFile ==
    /\ \E file \in HeartbeatFiles : hb_file' = file
    /\ UNCHANGED <<hb_running, hb_tasks, hb_loop_task, hb_stops, hb_calls>>
    /\ UNCHANGED <<coreVars, chanVars, libVars>>

\* ------------------------------------------------------------------------
\* BaseChannel (channels/base.py)
\* ------------------------------------------------------------------------

\* The number of platform events handed to handle_message.
MaxEvents == 2

\* A sender id is the sequence of the parts that "|" separates in it.
RECURSIVE SenderText(_)
\* The sender id as the string it is.
SenderText(sender) ==
    IF Len(sender) = 1 THEN sender[1]
    ELSE sender[1] \o "|" \o SenderText(Tail(sender))

\* The adapters, by BaseChannel.name, with config.allow_from: discord lets
\* everybody in, whatsapp lists one plain id and one composite id.
Adapters == {"discord", "whatsapp"}

AllowFrom(channel) ==
    IF channel = "whatsapp" THEN << <<"alice">>, <<"u3", "bob">> >> ELSE <<>>

\* The senders and chats of the platform events.
SenderIds ==
    {<<"alice">>, <<"mallory">>, <<"mallory", "alice">>, <<"u3", "bob">>,
     <<"mallory", "eve">>}

ChatIds == {"42", "43"}

\* A faulty _is_allowed that lets every composite id in.
IsAllowedComposite(allow_list, sender) ==
    IF allow_list = <<>> THEN TRUE
    ELSE IF sender \in Range(allow_list) THEN TRUE
    ELSE Len(sender) > 1

\* BaseChannel._is_allowed(sender_id) with allow_list = config.allow_from
IsAllowed(allow_list, sender) ==
    IF allow_list = <<>> THEN TRUE
    ELSE IF sender \in Range(allow_list) THEN TRUE
    ELSE IF Len(sender) > 1
    THEN \E k \in DOMAIN sender :
             sender[k] # "" /\ <<sender[k]>> \in Range(allow_list)
    ELSE FALSE

\* BaseChannel.handle_message(sender_id, chat_id, content) of an adapter
HandleMessage ==
    /\ Len(chan_log) < MaxEvents
    /\ ~QueueFull(inbound, InboundSize)
    /\ \E channel \in Adapters, sender \in SenderIds, chat_id \in ChatIds :
         LET event == [channel |-> channel, sender |-> sender,
                       chat_id |-> chat_id, content |-> "ping"]
         IN IF ~IsAllowed(AllowFrom(channel), sender)
            THEN /\ chan_log' = Append(chan_log, [event |-> event, published |-> FALSE])
                 /\ UNCHANGED inbound
            ELSE /\ chan_log' = Append(chan_log, [event |-> event, published |-> TRUE])
                 /\ inbound' = Append(inbound,
                        InboundMessage(channel, SenderText(sender), chat_id, "ping"))
    /\ UNCHANGED <<agentVars, outbound, dispVars, cronVars, starts, hbVars, libVars>>

\* ------------------------------------------------------------------------
\* SessionManager: the session files (session/manager.py)
\* ------------------------------------------------------------------------

\* The number of Session objects a process creates, the number of messages
\* of a session.
MaxSessions == 1
MaxMessages == 2

\* The number of save calls, the number of times the process is killed.
MaxSaves == 2
MaxKills == 1

\* A string is the sequence of its pieces: fragments of plain text and the
\* characters that matter to a conversion, each a piece of its own.
LF == "\n"
Quote == "\""
EscapedLF == "\\n"
EscapedQuote == "\\\""
Comma == ", "

\* A dict with no entries.
EmptyDict == [k \in {} |-> <<>>]

\* The keys of the dicts written to a session file, in the order of
\* insertion; the value of "metadata" is a dict, every other value a string.
JsonKeys == <<"_type", "created_at", "updated_at", "metadata", "role", "content",
              "timestamp", "tool_call_id", "title">>

\* A key as json.dumps writes it, with its quotes and the colon.
KeyPieces == [k \in Range(JsonKeys) |-> "\"" \o k \o "\": "]

KeyPiece(k) == KeyPieces[k]

\* A json.dumps that writes the characters of a string as they are.
NoEscape(s) == s

\* The string escapes of json.dumps, and of json.loads.
Escape(s) ==
    [i \in DOMAIN s |-> IF s[i] = LF THEN EscapedLF
                        ELSE IF s[i] = Quote THEN EscapedQuote
                        ELSE s[i]]

Unescape(s) ==
    [i \in DOMAIN s |-> IF s[i] = EscapedLF THEN LF
                        ELSE IF s[i] = EscapedQuote THEN Quote
                        ELSE s[i]]

RECURSIVE JsonMembers(_, _)
\* json.dumps(d): the text of a dict, as pieces
JsonMembers(d, keys) ==
    IF keys = <<>> THEN <<>>
    ELSE LET k == Head(keys)
             rest == JsonMembers(d, Tail(keys))
         IN IF k \notin DOMAIN d THEN rest
            ELSE <<KeyPiece(k)>>
                 \o (IF k = "metadata"
                     THEN <<"{">> \o JsonMembers(d[k], JsonKeys) \o <<"}">>
                     ELSE <<Quote>> \o Escape(d[k]) \o <<Quote>>)
                 \o (IF rest = <<>> THEN <<>> ELSE <<Comma>>)
                 \o rest

Dumps(d) == <<"{">> \o JsonMembers(d, JsonKeys) \o <<"}">>

\* json.loads(line): [ok, value, rest]; ok is false where json.loads raises.
ParseFailure == [ok |-> FALSE, value |-> EmptyDict, rest |-> <<>>]

RECURSIVE ParseString(_)
\* the pieces of a string up to its closing quote
ParseString(p) ==
    IF p = <<>> THEN ParseFailure
    ELSE IF Head(p) = Quote THEN [ok |-> TRUE, value |-> <<>>, rest |-> Tail(p)]
    ELSE IF Head(p) = LF THEN ParseFailure
    ELSE LET r == ParseString(Tail(p))
         IN IF ~r.ok THEN ParseFailure
            ELSE [ok |-> TRUE, value |-> Unescape(<<Head(p)>>) \o r.value,
                  rest |-> r.rest]

RECURSIVE ParseMembers(_)
\* the members of a dict up to its closing brace
ParseMembers(p) ==
    IF p = <<>> THEN ParseFailure
    ELSE IF Head(p) = "}" THEN [ok |-> TRUE, value |-> EmptyDict, rest |-> Tail(p)]
    ELSE IF Head(p) = Comma THEN ParseMembers(Tail(p))
    ELSE IF \E k \in Range(JsonKeys) : KeyPiece(k) = Head(p)
    THEN LET k == CHOOSE k \in Range(JsonKeys) : KeyPiece(k) = Head(p)
             q == Tail(p)
             v == IF q = <<>> THEN ParseFailure
                  ELSE IF Head(q) = Quote THEN ParseString(Tail(q))
                  ELSE IF Head(q) = "{" THEN ParseMembers(Tail(q))
                  ELSE ParseFailure
         IN IF ~v.ok THEN ParseFailure
            ELSE LET m == ParseMembers(v.rest)
                 IN IF ~m.ok THEN ParseFailure
                    ELSE [ok |-> TRUE, value |-> (k :> v.value) @@ m.value,
                          rest |-> m.rest]
    ELSE ParseFailure

Loads(line) ==
    IF line = <<>> \/ Head(line) # "{" THEN ParseFailure
    ELSE LET m == ParseMembers(Tail(line))
         IN IF m.ok /\ m.rest = <<>> THEN m ELSE ParseFailure

RECURSIVE SplitLines(_, _)
\* "for line in f": the lines of a text, each without its line terminator
SplitLines(text, line) ==
    IF text = <<>> THEN (IF line = <<>> THEN <<>> ELSE <<line>>)
    ELSE IF Head(text) = LF THEN <<line>> \o SplitLines(Tail(text), <<>>)
    ELSE SplitLines(Tail(text), Append(line, Head(text)))

\* now_iso() at time n, and the values it can return.
NowIso(n) ==
    << <<"2026-01-01T00:00:00", "2026-01-01T00:00:01", "2026-01-01T00:00:02",
         "2026-01-01T00:00:03">>[n + 1] >>

Clock == {NowIso(n) : n \in 0..MaxTime}

\* Session keys, ":" and the characters of _UNSAFE_CHARS as pieces of
\* their own.
StoreKeys == {<<"telegram", ":", "42">>, <<"telegram", "/", "42">>}

UnsafeChars == {"<", ">", ":", "\"", "/", "\\", "|", "?", "*"}

\* safe_filename(name)
SafeFilename(name) ==
    Strip([i \in DOMAIN name |-> IF name[i] \in UnsafeChars THEN "_" ELSE name[i]])

\* SessionManager._path(key), relative to sessions_dir
SessionPath(key) ==
    SafeFilename([i \in DOMAIN key |-> IF key[i] = ":" THEN "_" ELSE key[i]])
    \o <<".jsonl">>

\* A save that writes to the session file itself.
SamePath(path) == path

\* path.with_suffix(".tmp")
TmpPath(path) == SubSeq(path, 1, Len(path) - 1) \o <<".tmp">>

\* Session(key=key): a new session, created at time t
NewSession(key, t) ==
    [key |-> key, messages |-> <<>>, created_at |-> t, updated_at |-> t,
     metadata |-> EmptyDict]

\* What the callers append: role, content and the extra fields.
MessageInputs ==
    {[role |-> <<"user">>, content |-> <<"say ", Quote, "hi", Quote>>],
     [role |-> <<"tool">>, content |-> <<"a.txt", LF, "b.txt">>,
      tool_call_id |-> <<"call_1">>]}

\* The metadata a caller sets on a session.
MetadataInputs == {EmptyDict, [title |-> <<"trip", LF, "plan">>]}

\* The message Session.append(role, content, **extra) appends at time t.
NewMessage(input, t) == ("timestamp" :> t) @@ input

\* The first line of a session file.
MetadataLine(session) ==
    Dumps([_type |-> <<"metadata">>, created_at |-> session.created_at,
           updated_at |-> session.updated_at, metadata |-> session.metadata])

\* The writes of save(session), one per f.write call.
SaveWrites(session) ==
    <<MetadataLine(session) \o <<LF>>>>
    \o [i \in DOMAIN session.messages |-> Dumps(session.messages[i]) \o <<LF>>]

\* The text of the file a completed save(session) leaves.
FileText(session) == Flatten(SaveWrites(session))

RECURSIVE LoadLines(_, _)
\* The loop of _load over the lines: [ok, messages, metadata, created_at];
\* created_at <<>> stands for None.
LoadLines(lines, acc) ==
    IF lines = <<>> THEN acc
    ELSE IF Strip(Head(lines)) = <<>> THEN LoadLines(Tail(lines), acc)
    ELSE LET data == Loads(Head(lines))
         IN IF ~data.ok THEN [acc EXCEPT !.ok = FALSE]
            ELSE IF "_type" \in DOMAIN data.value
                    /\ data.value["_type"] = <<"metadata">>
            THEN LoadLines(Tail(lines),
                     [acc EXCEPT !.metadata =
                                     IF "metadata" \in DOMAIN data.value
                                     THEN data.value["metadata"] ELSE EmptyDict,
                                 !.created_at =
                                     IF "created_at" \in DOMAIN data.value
                                     THEN data.value["created_at"] ELSE <<>>])
            ELSE LoadLines(Tail(lines),
                     [acc EXCEPT !.messages = Append(@, data.value)])

\* SessionManager._load(key) at time t: <<>> for None, else <<session>>
LoadOp(files, key, t) ==
    IF SessionPath(key) \notin DOMAIN files THEN <<>>
    ELSE LET r == LoadLines(SplitLines(files[SessionPath(key)], <<>>),
                            [ok |-> TRUE, messages |-> <<>>,
                             metadata |-> EmptyDict, created_at |-> <<>>])
         IN IF ~r.ok THEN <<>>
            ELSE <<[key |-> key, messages |-> r.messages,
                    created_at |-> IF r.created_at = <<>> THEN t ELSE r.created_at,
                    updated_at |-> t, metadata |-> r.metadata]>>

\* The session directory with no file in it.
NoFiles == [p \in {} |-> <<>>]

\* SessionManager.get(key): the cached object, else the session of the
\* file, else a new session; cached either way.
StGet ==
    /\ st_save = <<>>
    /\ \E key \in StoreKeys :
         IF key \in DOMAIN st_cache
         THEN UNCHANGED <<st_heap, st_cache>>
         ELSE /\ Len(st_heap) < MaxSessions
              /\ LET loaded == LoadOp(st_files, key, NowIso(now))
                     session == IF loaded = <<>> THEN NewSession(key, NowIso(now))
                                ELSE loaded[1]
                 IN /\ st_heap' = Append(st_heap, session)
                    /\ st_cache' = (key :> Len(st_heap) + 1) @@ st_cache
    /\ UNCHANGED <<st_files, st_save, st_committed, st_last, st_n>>
    /\ UNCHANGED <<coreVars, hbVars, chanVars, shellVars, stopVars>>

\* Session.append(role, content, **extra) on a session object
StAppend ==
    /\ st_save = <<>>
    /\ \E i \in DOMAIN st_heap, input \in MessageInputs :
         /\ Len(st_heap[i].messages) < MaxMessages
         /\ st_heap' = [st_heap EXCEPT
                ![i].messages = Append(@, NewMessage(input, NowIso(now))),
                ![i].updated_at = NowIso(now)]
    /\ UNCHANGED <<st_cache, st_files, st_save, st_committed, st_last, st_n>>
    /\ UNCHANGED <<coreVars, hbVars, chanVars, shellVars, stopVars>>

\* A caller sets session.metadata.
StSetMetadata ==
    /\ st_save = <<>>
    /\ \E i \in DOMAIN st_heap, m \in MetadataInputs :
         /\ st_heap[i].metadata # m
         /\ st_heap' = [st_heap EXCEPT ![i].metadata = m]
    /\ UNCHANGED <<st_cache, st_files, st_save, st_committed, st_last, st_n>>
    /\ UNCHANGED <<coreVars, hbVars, chanVars, shellVars, stopVars>>

\* The file save(session) writes to.
SaveTarget(session) == TmpPath(SessionPath(session.key))

\* SessionManager.save(session) is called.
StSave ==
    /\ st_save = <<>>
    /\ st_n.save < MaxSaves
    /\ \E i \in DOMAIN st_heap :
         st_save' = <<[id |-> i, pc |-> "open", todo |-> SaveWrites(st_heap[i])]>>
    /\ st_n' = [st_n EXCEPT !.save = @ + 1]
    /\ UNCHANGED <<st_heap, st_cache, st_files, st_committed, st_last>>
    /\ UNCHANGED <<coreVars, hbVars, chanVars, shellVars, stopVars>>

\* save: open(tmp, "w") creates the file, or truncates the one that is there
StSaveOpen ==
    /\ st_save # <<>>
    /\ st_save[1].pc = "open"
    /\ st_files' = (SaveTarget(st_heap[st_save[1].id]) :> <<>>) @@ st_files
    /\ st_save' = <<[st_save[1] EXCEPT !.pc = "write"]>>
    /\ UNCHANGED <<st_heap, st_cache, st_committed, st_last, st_n>>
    /\ UNCHANGED <<coreVars, hbVars, chanVars, shellVars, stopVars>>

\* save: one f.write reaches the file
StSaveWrite ==
    /\ st_save # <<>>
    /\ st_save[1].pc = "write"
    /\ st_save[1].todo # <<>>
    /\ LET tmp == SaveTarget(st_heap[st_save[1].id])
       IN st_files' = [st_files EXCEPT ![tmp] = @ \o Head(st_save[1].todo)]
    /\ st_save' = <<[st_save[1] EXCEPT !.todo = Tail(@)]>>
    /\ UNCHANGED <<st_heap, st_cache, st_committed, st_last, st_n>>
    /\ UNCHANGED <<coreVars, hbVars, chanVars, shellVars, stopVars>>

\* save: the file is closed and tmp.replace(path) renames it
StSaveReplace ==
    /\ st_save # <<>>
    /\ st_save[1].pc = "write"
    /\ st_save[1].todo = <<>>
    /\ LET session == st_heap[st_save[1].id]
           tmp == SaveTarget(session)
           path == SessionPath(session.key)
       IN /\ st_files' = (path :> st_files[tmp])
                         @@ [q \in DOMAIN st_files \ {tmp} |-> st_files[q]]
          /\ st_committed' = (path :> session) @@ st_committed
    /\ st_save' = <<[st_save[1] EXCEPT !.pc = "replaced"]>>
    /\ UNCHANGED <<st_heap, st_cache, st_last, st_n>>
    /\ UNCHANGED <<coreVars, hbVars, chanVars, shellVars, stopVars>>

\* save: self._cache[session.key] = session, and the call returns
StSaveReturns ==
    /\ st_save # <<>>
    /\ st_save[1].pc = "replaced"
    /\ LET i == st_save[1].id
       IN /\ st_cache' = (st_heap[i].key :> i) @@ st_cache
          /\ st_last' = <<[id |-> i, ok |-> TRUE, session |-> st_heap[i]]>>
    /\ st_save' = <<>>
    /\ UNCHANGED <<st_heap, st_files, st_committed, st_n>>
    /\ UNCHANGED <<coreVars, hbVars, chanVars, shellVars, stopVars>>

\* save: open, json.dumps, a write or the rename raises; the except clause
\* logs the exception and the call returns
StSaveFails ==
    /\ st_save # <<>>
    /\ st_save[1].pc \in {"open", "write"}
    /\ st_last' = <<[id |-> st_save[1].id, ok |-> FALSE,
                     session |-> st_heap[st_save[1].id]]>>
    /\ st_save' = <<>>
    /\ UNCHANGED <<st_heap, st_cache, st_files, st_committed, st_n>>
    /\ UNCHANGED <<coreVars, hbVars, chanVars, shellVars, stopVars>>

\* The process is killed, at any point of a save too: its memory is gone,
\* the files stay as they are.
StCrash ==
    /\ st_n.kill < MaxKills
    /\ st_save # <<>>
    /\ st_heap' = <<>>
    /\ st_cache' = NoFiles
    /\ st_save' = <<>>
    /\ st_last' = <<>>
    /\ st_n' = [st_n EXCEPT !.kill = @ + 1]
    /\ UNCHANGED <<st_files, st_committed>>
    /\ UNCHANGED <<coreVars, hbVars, chanVars, shellVars, stopVars>>

\* ------------------------------------------------------------------------
\* ExecTool (tools/shell.py)
\* ------------------------------------------------------------------------

\* The number of execute calls made on the exec tool.
MaxShell == 2

\* A command is the sequence of its characters.
Whitespace == {" ", "\t"}

UpperCase ==
    <<"A", "B", "C", "D", "E", "F", "G", "H", "I", "J", "K", "L", "M", "N", "O",
      "P", "Q", "R", "S", "T", "U", "V", "W", "X", "Y", "Z">>

LowerCase ==
    <<"a", "b", "c", "d", "e", "f", "g", "h", "i", "j", "k", "l", "m", "n", "o",
      "p", "q", "r", "s", "t", "u", "v", "w", "x", "y", "z">>

Digits == {"0", "1", "2", "3", "4", "5", "6", "7", "8", "9"}

\* \w of the re module
WordChars == Range(UpperCase) \cup Range(LowerCase) \cup Digits \cup {"_"}

\* command.lower()
Lower(s) ==
    [i \in DOMAIN s |->
        IF \E k \in DOMAIN UpperCase : UpperCase[k] = s[i]
        THEN LowerCase[CHOOSE k \in DOMAIN UpperCase : UpperCase[k] = s[i]]
        ELSE s[i]]

RECURSIVE LTrim(_)
LTrim(s) == IF s # <<>> /\ Head(s) \in Whitespace THEN LTrim(Tail(s)) ELSE s

RECURSIVE RTrim(_)
RTrim(s) ==
    IF s # <<>> /\ s[Len(s)] \in Whitespace THEN RTrim(SubSeq(s, 1, Len(s) - 1))
    ELSE s

\* command.strip()
Trim(s) == RTrim(LTrim(s))

\* A regular expression is the sequence of its items: a character of a set
\* repeated min to max times, any character repeated, one of a set of
\* words, \b, or ^.
Unbounded == 99

Item(kind, chars, min, max, words) ==
    [kind |-> kind, chars |-> chars, min |-> min, max |-> max, words |-> words]

Lit(c) == Item("set", {c}, 1, 1, {})
OneOf(chars, min, max) == Item("set", chars, min, max, {})
Spaces(min) == Item("set", Whitespace, min, Unbounded, {})
AnyChars == Item("any", {}, 0, Unbounded, {})
Alt(words) == Item("alt", {}, 1, 1, words)
WordBoundary == Item("b", {}, 0, 0, {})
StartOfText == Item("start", {}, 0, 0, {})

\* \b at position i of s: between a word character and what is not one
IsBoundary(s, i) ==
    LET before == i > 1 /\ s[i - 1] \in WordChars
        after == i <= Len(s) /\ s[i] \in WordChars
    IN before # after

RECURSIVE MatchAt(_, _, _)
\* whether the items match s from position i on
MatchAt(items, s, i) ==
    IF items = <<>> THEN TRUE
    ELSE LET it == Head(items)
             left == Len(s) - i + 1
         IN IF it.kind = "b" THEN IsBoundary(s, i) /\ MatchAt(Tail(items), s, i)
            ELSE IF it.kind = "start" THEN i = 1 /\ MatchAt(Tail(items), s, i)
            ELSE IF it.kind = "alt"
            THEN \E w \in it.words :
                    /\ Len(w) <= left
                    /\ SubSeq(s, i, i + Len(w) - 1) = w
                    /\ MatchAt(Tail(items), s, i + Len(w))
            ELSE \E n \in it.min..(IF it.max < left THEN it.max ELSE left) :
                    /\ \A k \in i..(i + n - 1) :
                           it.kind = "any" \/ s[k] \in it.chars
                    /\ MatchAt(Tail(items), s, i + n)

\* re.search(pattern, s)
Search(items, s) == \E i \in 1..(Len(s) + 1) : MatchAt(items, s, i)

\* The default deny patterns.
DenyPatterns ==
    << \* \brm\s+-[rf]{1,2}\b
       <<WordBoundary, Lit("r"), Lit("m"), Spaces(1), Lit("-"),
         OneOf({"r", "f"}, 1, 2), WordBoundary>>,
       \* \bdel\s+/[fq]\b
       <<WordBoundary, Lit("d"), Lit("e"), Lit("l"), Spaces(1), Lit("/"),
         OneOf({"f", "q"}, 1, 1), WordBoundary>>,
       \* \brmdir\s+/s\b
       <<WordBoundary, Alt({<<"r", "m", "d", "i", "r">>}), Spaces(1), Lit("/"),
         Lit("s"), WordBoundary>>,
       \* \b(format|mkfs|diskpart)\b
       <<WordBoundary,
         Alt({<<"f", "o", "r", "m", "a", "t">>, <<"m", "k", "f", "s">>,
              <<"d", "i", "s", "k", "p", "a", "r", "t">>}),
         WordBoundary>>,
       \* \bdd\s+if=
       <<WordBoundary, Lit("d"), Lit("d"), Spaces(1), Lit("i"), Lit("f"), Lit("=")>>,
       \* >\s*/dev/sd
       <<Lit(">"), Spaces(0), Alt({<<"/", "d", "e", "v", "/", "s", "d">>})>>,
       \* \b(shutdown|reboot|poweroff)\b
       <<WordBoundary,
         Alt({<<"s", "h", "u", "t", "d", "o", "w", "n">>,
              <<"r", "e", "b", "o", "o", "t">>,
              <<"p", "o", "w", "e", "r", "o", "f", "f">>}),
         WordBoundary>>,
       \* :\(\)\s*\{.*\};\s*:
       <<Lit(":"), Lit("("), Lit(")"), Spaces(0), Lit("{"), AnyChars, Lit("}"),
         Lit(";"), Spaces(0), Lit(":")>> >>

\* The allow_patterns of the tool: none, as AgentLoop and SubagentManager
\* build it, or ^ls\b and ^git\s+status.
AllowLists ==
    {<<>>,
     << <<StartOfText, Lit("l"), Lit("s"), WordBoundary>>,
        <<StartOfText, Lit("g"), Lit("i"), Lit("t"), Spaces(1),
          Alt({<<"s", "t", "a", "t", "u", "s">>})>> >>}

\* The commands of the calls.
Commands ==
    {<<"r", "m", " ", "-", "r", "f", " ", "/">>,
     <<" ", "R", "M", " ", " ", "-", "R", "f", " ", "/", "t", "m", "p">>,
     <<"r", "m", " ", "-", "r", "f", "v", " ", "/">>,
     <<"l", "s", " ", "-", "l", "a">>,
     <<"L", "S">>,
     <<"l", "s", ";", " ", "r", "e", "b", "o", "o", "t">>,
     <<"e", "c", "h", "o", " ", "x", " ", ">", "/", "d", "e", "v", "/", "s", "d", "a">>,
     <<"c", "a", "t", " ", "a", ".", "t", "x", "t">>}

NoGuardError == <<>>
DangerousPattern ==
    <<"Error: command blocked by safety guard", " (dangerous pattern detected)">>
NotInAllowlist ==
    <<"Error: command blocked by safety guard", " (not in allowlist)">>

\* A guard that consults the allowlist only.
CheckAllowlistOnly(command, allow_patterns) ==
    IF allow_patterns # <<>>
       /\ ~\E k \in DOMAIN allow_patterns :
              Search(allow_patterns[k], Lower(Trim(command)))
    THEN NotInAllowlist
    ELSE NoGuardError

\* ExecTool._check_command_safety(command, cwd) with restrict_to_workspace
\* False, as every ExecTool of the program is built: the error, or <<>>
\* for None
CheckCommandSafety(command, allow_patterns) ==
    LET lower == Lower(Trim(command))
    IN IF \E k \in DOMAIN DenyPatterns : Search(DenyPatterns[k], lower)
       THEN DangerousPattern
       ELSE IF allow_patterns # <<>>
               /\ ~\E k \in DOMAIN allow_patterns : Search(allow_patterns[k], lower)
       THEN NotInAllowlist
       ELSE NoGuardError

\* How the subprocess of a call ends, and what execute returns then.
SubprocessOutcomes == {"not created", "timed out", "exited"}

ExecResult(outcome) ==
    IF outcome = "not created" THEN <<"Error: failed to execute command: ", "OSError">>
    ELSE IF outcome = "timed out" THEN <<"Error: command timed out after ", "60", " seconds">>
    ELSE <<"(no output)">>

\* ExecTool.execute(command=...) up to its first await: the guard's error
\* is returned, or create_subprocess_shell is awaited.
ShellExecute ==
    /\ Len(sh_calls) < MaxShell
    /\ \E command \in Commands, allow \in AllowLists :
         LET guard_error == CheckCommandSafety(command, allow)
         IN sh_calls' = Append(sh_calls,
                [command |-> command, allow |-> allow,
                 state |-> IF guard_error # NoGuardError THEN "returned"
                           ELSE "subprocess",
                 launched |-> guard_error = NoGuardError,
                 result |-> guard_error])
    /\ UNCHANGED <<coreVars, hbVars, chanVars, storeVars, stopVars>>

\* The subprocess of call i could not be created, timed out and was
\* killed, or exited: execute returns.
ShellReturns(i) ==
    /\ sh_calls[i].state = "subprocess"
    /\ \E outcome \in SubprocessOutcomes :
         sh_calls' = [sh_calls EXCEPT ![i].state = "returned",
                                      ![i].result = ExecResult(outcome)]
    /\ UNCHANGED <<coreVars, hbVars, chanVars, storeVars, stopVars>>

\* ------------------------------------------------------------------------
\* Specifications
\* ------------------------------------------------------------------------

Init ==
    /\ reg_n = 0
    /\ reg_last = NULL
    /\ reg_body = <<>>
    /\ inbound = <<>>
    /\ outbound = <<>>
    /\ sessions = NoSessions
    /\ disk = NoSessions
    /\ tool_ctx = [message |-> [channel |-> NULL, chat_id |-> NULL],
                   spawn |-> [channel |-> "cli", chat_id |-> "direct"]]
    /\ run_state = "new"
    /\ turns = <<>>
    /\ al_pc = "idle"
    /\ al_caller = "none"
    /\ al_msg = NULL
    /\ al_key = NULL
    /\ al_step = 0
    /\ al_messages = <<>>
    /\ al_resp = NULL
    /\ al_resps = <<>>
    /\ al_idx = 0
    /\ al_result = NULL
    /\ al_chats = 0
    /\ al_execs = <<>>
    /\ subs = <<>>
    /\ sub_running = {}
    /\ ctx_last = <<>>
    /\ bus_running = FALSE
    /\ dispatchers = <<>>
    /\ subscribers = [c \in BusChannels |-> <<>>]
    /\ dispatched = <<>>
    /\ now = 0
    /\ cron_running = FALSE
    /\ cron_loaded = FALSE
    /\ cron_heap = <<>>
    /\ cron_store = <<>>
    /\ cron_disk = <<>>
    /\ cron_tasks = [scheduler |-> 0, flusher |-> 0]
    /\ cron_wakeup = FALSE
    /\ cron_pc = "off"
    /\ cron_tick_now = 0
    /\ cron_cur = 0
    /\ cron_due = <<>>
    /\ cron_sleep_until = 0
    /\ cron_runs = <<>>
    /\ starts = [bus |-> 0, cron |-> 0]
    /\ hb_running = FALSE
    /\ hb_tasks = <<>>
    /\ hb_loop_task = 0
    /\ hb_stops = {}
    /\ hb_file = AbsentFile
    /\ hb_calls = <<>>
    /\ chan_log = <<>>
    /\ st_heap = <<>>
    /\ st_cache = NoFiles
    /\ st_files = NoFiles
    /\ st_save = <<>>
    /\ st_committed = NoFiles
    /\ st_last = <<>>
    /\ st_n = [save |-> 0, kill |-> 0]
    /\ sh_calls = <<>>
    /\ bus_stop_mark = <<>>

\* The bus, the consume loop and process_direct.
Next ==
    \/ PublishInbound
    \/ RunStart
    \/ RunIteration
    \/ RunPollTimeout
    \/ AgentStop
    \/ ProcessDirect

Spec == Init /\ [][Next]_vars

\* The bus and the consume loop.  The event loop runs the consume loop
\* whenever its read of the inbound queue can return a message.
NextConsume ==
    \/ PublishInbound
    \/ RunStart
    \/ RunIteration
    \/ RunPollTimeout
    \/ AgentStop
    \/ Spawn
    \/ \E i \in DOMAIN subs : SubagentIteration(i)
    \/ \E i \in DOMAIN subs : SubagentDoneCallback(i)

SpecConsume == Init /\ [][NextConsume]_vars /\ WF_vars(RunIteration)

\* _agent_loop called on its own.
NextLoop ==
    \/ AgentLoopCall
    \/ AgentChat
    \/ AgentToolExec

SpecLoop == Init /\ [][NextLoop]_vars

\* ToolRegistry.execute called on its own.
NextRegistry == RegistryExecuteCall

SpecRegistry == Init /\ [][NextRegistry]_vars

\* SubagentManager.spawn and the background tasks it starts.
NextSubagent ==
    \/ Spawn
    \/ \E i \in DOMAIN subs : SubagentIteration(i)
    \/ \E i \in DOMAIN subs : SubagentDoneCallback(i)

SpecSubagent == Init /\ [][NextSubagent]_vars

\* The background tasks together with the consume loop that receives their
\* reports from the inbound queue.
NextReport ==
    \/ Spawn
    \/ \E i \in DOMAIN subs : SubagentIteration(i)
    \/ \E i \in DOMAIN subs : SubagentDoneCallback(i)
    \/ RunStart
    \/ RunIteration
    \/ RunPollTimeout

SpecReport == Init /\ [][NextReport]_vars

\* Background tasks whose model asks for the message and spawn tools.
NextIsolation ==
    \/ SpawnDelegating
    \/ \E i \in DOMAIN subs : SubagentIteration(i)
    \/ \E i \in DOMAIN subs : SubagentDoneCallback(i)

SpecIsolation == Init /\ [][NextIsolation]_vars

\* The outbound side of the bus: subscriptions, publishers and dispatcher.
NextBus ==
    \/ BusStart
    \/ Subscribe
    \/ PublishOutbound
    \/ \E d \in DOMAIN dispatchers : DispatchLoopTop(d)
    \/ \E d \in DOMAIN dispatchers : DispatchMessage(d)

SpecBus == Init /\ [][NextBus]_vars

\* start() called on a scheduler that is not running.
CronStartOnce == ~cron_running /\ CronStart

\* The scheduler, started once: start, add_job, run_job, its loop, its
\* flusher and the clock.
NextCron ==
    \/ CronStartOnce
    \/ Advance
    \/ AddJob
    \/ \E id \in DOMAIN cron_heap : RunJob(id)
    \/ Tick
    \/ JobReturns
    \/ Flush

SpecCron == Init /\ [][NextCron]_vars

\* The two start() calls with what runs once they are called: the
\* dispatcher, and the scheduler with add_job, its loop and its flusher.
NextStart ==
    \/ BusStart
    \/ \E d \in DOMAIN dispatchers : DispatchLoopTop(d)
    \/ CronStart
    \/ Advance
    \/ AddJob
    \/ Tick
    \/ JobReturns
    \/ Flush

SpecStart == Init /\ [][NextStart]_vars

\* The scheduler, started once, with interval jobs only.
NextInterval ==
    \/ CronStartOnce
    \/ Advance
    \/ AddIntervalJob
    \/ Tick
    \/ JobReturns

SpecInterval == Init /\ [][NextInterval]_vars

\* The scheduler stopped and started again, with jobs that stay in the
\* store.
NextRestart ==
    \/ CronStart
    \/ CronStop
    \/ Advance
    \/ AddOneShotJob
    \/ Tick
    \/ JobReturns

SpecRestart == Init /\ [][NextRestart]_vars

\* The scheduler with its three mutators: add_job, run_job and remove_job.
NextMutate ==
    \/ NextCron
    \/ \E id \in DOMAIN cron_heap : RemoveJob(id)

SpecMutate == Init /\ [][NextMutate]_vars

\* The bus with start and stop. The event loop runs every task that is
\* ready: a dispatcher at the head of its loop gets its turn, and so does a
\* dispatcher waiting in outbound.get() while the queue holds a message.
NextStop ==
    \/ BusStart
    \/ BusStop
    \/ Subscribe
    \/ PublishOutbound
    \/ \E d \in DOMAIN dispatchers : DispatchLoopTop(d)
    \/ \E d \in DOMAIN dispatchers : DispatchMessage(d)

SpecStop ==
    /\ Init
    /\ [][NextStop]_vars
    /\ \A d \in 1..MaxStarts :
          /\ WF_vars(d \in DOMAIN dispatchers /\ DispatchLoopTop(d))
          /\ WF_vars(d \in DOMAIN dispatchers /\ DispatchMessage(d))

\* The ingress of the channel adapters.
NextChannel == HandleMessage

SpecChannel == Init /\ [][NextChannel]_vars

\* The session manager: get, append, save step by step, and the death of
\* the process.
NextStore ==
    \/ StGet
    \/ StAppend
    \/ StSetMetadata
    \/ StSave
    \/ StSaveOpen
    \/ StSaveWrite
    \/ StSaveReplace
    \/ StSaveReturns
    \/ StSaveFails
    \/ StCrash
    \/ Advance

SpecStore == Init /\ [][NextStore]_vars

\* The exec tool called on its own.
NextShell ==
    \/ ShellExecute
    \/ \E i \in DOMAIN sh_calls : ShellReturns(i)

SpecShell == Init /\ [][NextShell]_vars

\* The heartbeat service: start, stop, trigger_now, its loop tasks and the
\* file.
NextHeartbeat ==
    \/ HbStart
    \/ HbStop
    \/ \E i \in DOMAIN hb_tasks : HbStopReturns(i)
    \/ \E i \in DOMAIN hb_tasks : HbWake(i)
    \/ \E i \in DOMAIN hb_tasks : HbCallbackEnds(i)
    \/ \E i \in DOMAIN hb_tasks : HbCancelled(i)
    \/ HbTriggerNow
    \/ HbWriteFile

SpecHeartbeat == Init /\ [][NextHeartbeat]_vars

\* The context injection of a turn, the spawn tool and the background tasks
\* it starts.
NextSpawnTool ==
    \/ UpdateToolContextCall
    \/ SpawnToolExecute
    \/ \E i \in DOMAIN subs : SubagentIteration(i)
    \/ \E i \in DOMAIN subs : SubagentDoneCallback(i)

SpecSpawnTool == Init /\ [][NextSpawnTool]_vars

\* ------------------------------------------------------------------------
\* Properties of ToolRegistry.execute (checked under SpecRegistry)
\* ------------------------------------------------------------------------

\* The errors Tool.validate reports for the last call's arguments.
LastCallErrors == ToolValidate(ToolSchema(reg_last.name), reg_last.params).errors

\* C8: the registry validates the arguments against the tool's schema before
\* running the tool.  With arguments that fail validation the tool's body is
\* not invoked and the result is "Error: invalid parameters for tool
\* '<name>': " followed by the validation errors; arguments that pass
\* validation, unknown extra keys included, reach the tool's body.
C8_ValidatedBeforeRun ==
    (reg_n > 0 /\ reg_last.name \in MainTools) =>
        IF LastCallErrors # <<>>
        THEN /\ ~reg_last.ran
             /\ reg_last.result = "Error: invalid parameters for tool '"
                                     \o reg_last.name \o "': "
                                     \o Join(LastCallErrors, "; ")
        ELSE reg_last.ran

\* C9: execute reports every outcome as a string.  An unregistered name
\* gives "Error: tool '<name>' is not registered"; a registered tool called
\* with valid arguments gives the tool's own result, or "Error: tool
\* '<name>' execution failed: <reason>" when the tool raises.
C9_ExecuteResult ==
    reg_n > 0 =>
        IF reg_last.name \notin MainTools
        THEN reg_last.result = "Error: tool '" \o reg_last.name
                                 \o "' is not registered"
        ELSE LastCallErrors = <<>> =>
                IF reg_last.outcome.kind = "raise"
                THEN reg_last.result = "Error: tool '" \o reg_last.name
                                         \o "' execution failed: "
                                         \o reg_last.outcome.text
                ELSE reg_last.result = reg_last.outcome.text

\* ------------------------------------------------------------------------
\* Properties of a turn (checked under Spec)
\* ------------------------------------------------------------------------

\* The session `key` holds the exchange: the user message directly followed
\* by the assistant's answer.
Stored(key, content, answer) ==
    /\ key \in DOMAIN sessions
    /\ \E j \in 1..(Len(sessions[key]) - 1) :
          /\ sessions[key][j] = [role |-> "user", content |-> content]
          /\ sessions[key][j + 1] = [role |-> "assistant", content |-> answer]

\* The answer of turn t went to the one who asked: a reply on the outbound
\* queue for a consumed message, the returned string for process_direct.
Sent(t) ==
    /\ t.outcome = "returned"
    /\ t.caller = "run" =>
          \E j \in DOMAIN outbound :
              outbound[j] = OutboundMessage(t.msg.channel, t.msg.chat_id, t.value)

\* The ended turns that handled a message consumed by run().
RunTurns == SelectSeq(turns, LAMBDA t : t.caller = "run")

\* The number of ended process_direct turns called with session_key = key.
DirectTurnsOf(key) ==
    Cardinality({i \in DOMAIN turns :
                    turns[i].caller = "process_direct" /\ turns[i].key = key})

RECURSIVE TotalMessages(_)
\* The number of messages held by the sessions with their key in keys.
TotalMessages(keys) ==
    IF keys = {} THEN 0
    ELSE LET key == CHOOSE k \in keys : TRUE
         IN Len(sessions[key]) + TotalMessages(keys \ {key})

\* C1: a turn calls provider.chat at most max_steps times, and a turn whose
\* provider calls all returned responses carrying tool calls ends with the
\* step-limit string as its final answer, which is stored in the session and
\* sent as the reply.
C1_StepLimitEndsTurn ==
    \A i \in DOMAIN turns :
        LET t == turns[i] IN
        /\ t.chats <= MaxSteps
        /\ (/\ Len(t.resps) = t.chats
            /\ \A k \in DOMAIN t.resps : HasToolCalls(t.resps[k]))
           => /\ t.chats = MaxSteps
              /\ t.outcome = "returned"
              /\ t.value = StepLimitMessage
              /\ Stored(SessionKey(t.msg), t.msg.content, StepLimitMessage)
              /\ Sent(t)

\* C2: for every inbound message the consume loop has handled, exactly one
\* OutboundMessage has been published; it carries the turn's final answer
\* and the channel and chat_id of the inbound message.
C2_OneReplyPerInbound ==
    /\ Len(outbound) = Len(RunTurns)
    /\ \A i \in DOMAIN RunTurns :
          /\ RunTurns[i].outcome = "returned"
          /\ outbound[i] = OutboundMessage(RunTurns[i].msg.channel,
                                           RunTurns[i].msg.chat_id,
                                           RunTurns[i].value)

\* C4: every turn adds exactly two messages to the session store, the user
\* message and then the final assistant message, and the session file is
\* saved with them.
C4_TurnAddsTwoMessages ==
    /\ TotalMessages(DOMAIN sessions) = 2 * Len(turns)
    /\ \A i \in DOMAIN turns :
          \E key \in DOMAIN sessions :
              /\ Stored(key, turns[i].msg.content, turns[i].value)
              /\ key \in DOMAIN disk
              /\ disk[key] = sessions[key]

\* C5: process_direct(content, session_key) records the turn in the session
\* named by session_key, so the sessions of different keys hold only the
\* turns made with their own key.
C5_DirectTurnInNamedSession ==
    /\ \A i \in DOMAIN turns :
          turns[i].caller = "process_direct" =>
              Stored(turns[i].key, turns[i].msg.content, turns[i].value)
    /\ \A key \in DirectKeys :
          key \in DOMAIN sessions => Len(sessions[key]) = 2 * DirectTurnsOf(key)

\* ------------------------------------------------------------------------
\* Properties of _agent_loop (checked under SpecLoop)
\* ------------------------------------------------------------------------

\* The responses received so far that carry tool calls.
ToolResponses == SelectSeq(al_resps, HasToolCalls)

\* The tool calls the responses have asked for, in the order asked.
RequestedCalls ==
    Flatten([k \in DOMAIN ToolResponses |-> ToolResponses[k].tool_calls])

\* The positions of the assistant messages of the message list, and its
\* tool messages in order.
AssistantIdx == {i \in DOMAIN al_messages : al_messages[i].role = "assistant"}
ToolMessages == SelectSeq(al_messages, LAMBDA m : m.role = "tool")

\* The last response received is one without tool calls.
FinalReceived ==
    al_resps # <<>> /\ ~HasToolCalls(al_resps[Len(al_resps)])

\* The loop on its own keeps the step budget: at most max_steps provider
\* calls, and a return that is not the answer of a response without tool
\* calls is the step-limit string after max_steps provider calls.
LoopStepBound ==
    /\ al_chats <= MaxSteps
    /\ (al_pc = "returned" /\ ~FinalReceived) =>
          (al_result = StepLimitMessage /\ al_chats = MaxSteps)

C6_ToolFailureDoesNotAbort ==
    /\ Len(ToolMessages) = Len(al_execs)
    /\ \A k \in DOMAIN al_execs :
          /\ ToolMessages[k].content = al_execs[k].result
          /\ ToolMessages[k].tool_call_id = al_execs[k].call.id
          /\ al_execs[k].call.name \notin MainTools =>
                al_execs[k].result = "Error: tool '" \o al_execs[k].call.name
                                       \o "' is not registered"
    /\ Len(al_execs) =
          IF al_pc = "tool"
          THEN Len(RequestedCalls) - Len(al_resp.tool_calls) + al_idx - 1
          ELSE Len(RequestedCalls)
    /\ al_pc = "chat" => al_chats = Len(al_resps) /\ al_chats = al_step
    /\ al_pc = "raised" =>
          al_chats = Len(al_resps) + 1 /\ al_result = "RuntimeError: provider down"
    /\ al_pc = "returned" =>
          \/ FinalReceived
          \/ al_result = StepLimitMessage /\ Len(ToolResponses) = MaxSteps

\* The first call of a response was refused, the second call of the same
\* response was executed all the same, and the provider was called again.
C6_Witness ==
    /\ Len(al_resps) >= 2
    /\ Len(al_execs) >= 2
    /\ ~al_execs[1].ran
    /\ al_execs[1].call.id = CallId(1)
    /\ al_execs[2].call.id = CallId(2)

\* C7: a response without tool calls ends the loop at once.  The answer is
\* the content of the response, or the empty string when the content is
\* null; the response is the last one asked for, and no tool call is
\* executed after it.  The finish_reason makes no difference.
C7_FinalResponseStopsLoop ==
    /\ \A k \in 1..(Len(al_resps) - 1) : HasToolCalls(al_resps[k])
    /\ FinalReceived =>
          /\ al_pc = "returned"
          /\ al_result = (IF al_resps[Len(al_resps)].content = NULL
                          THEN ""
                          ELSE al_resps[Len(al_resps)].content)
          /\ al_chats = Len(al_resps)
          /\ Len(al_execs) = Len(RequestedCalls)
          /\ Len(al_messages) = 2 + Len(ToolResponses) + Len(RequestedCalls)

\* The provider's error response ended the loop with the empty string.
C7_Witness ==
    /\ FinalReceived
    /\ al_resps[Len(al_resps)].finish_reason = "error"
    /\ al_resps[Len(al_resps)].content = NULL
    /\ al_pc = "returned"
    /\ al_result = ""

\* ------------------------------------------------------------------------
\* Properties of the subagents (checked under SpecSubagent)
\* ------------------------------------------------------------------------

\* The text an ended subagent has to report: what its loop returned, or
\* "Error: " and the text of the exception.
ReportedResult(s) ==
    IF s.ended.kind = "raised" THEN "Error: " \o s.ended.value ELSE s.ended.value

\* C10: a subagent publishes nothing while it runs and, once its loop has
\* returned or raised, has published exactly one InboundMessage: channel
\* "system", sender "subagent", chat_id "<origin channel>:<origin chat_id>",
\* a content that holds the task and the result, headed "[Task completed
\* successfully]" after a return and "[Task failed]" with the exception text
\* as the result after a raise.  The task itself ends without an exception.
C10_SubagentAnnouncesOnce ==
    /\ \A i \in DOMAIN subs :
         LET s == subs[i] IN
         /\ ~s.raised
         /\ s.pc # "done" => s.published = <<>> /\ s.ended.kind = "none"
         /\ s.pc = "done" =>
              /\ s.ended.kind \in {"returned", "raised"}
              /\ Len(s.published) = 1
              /\ s.published[1].channel = "system"
              /\ s.published[1].sender_id = "subagent"
              /\ s.published[1].chat_id = s.origin.channel \o ":" \o s.origin.chat_id
              /\ s.published[1].content =
                    (IF s.ended.kind = "returned"
                     THEN "[Task completed successfully]"
                     ELSE "[Task failed]")
                    \o "\n\nTask:\n" \o s.task
                    \o "\n\nResult:\n" \o ReportedResult(s)
                    \o "\n\nSummarize this naturally for the user in 1-2 sentences.\n"
                    \o "Do not mention internal agent mechanics.\n"
              /\ \E k \in DOMAIN inbound : inbound[k] = s.published[1]
    /\ Len(inbound) = Cardinality({i \in DOMAIN subs : subs[i].pc = "done"})

\* Two subagents have ended, one whose loop returned and one whose loop
\* raised.
C10_Witness ==
    \E i, j \in DOMAIN subs :
        /\ subs[i].pc = "done" /\ subs[i].ended.kind = "returned"
        /\ subs[j].pc = "done" /\ subs[j].ended.kind = "raised"
        /\ Len(inbound) = 2

\* ------------------------------------------------------------------------
\* Properties of the handling of subagent reports (checked under SpecReport)
\* ------------------------------------------------------------------------

\* The turns that handled a subagent's completion report.
ReportTurns == {k \in DOMAIN turns : turns[k].msg.channel = "system"}

\* C11: the handling of every subagent report has put a message into the
\* outbound queue that is addressed to the report's origin, that is to the
\* channel and chat_id its chat_id "<origin channel>:<origin chat_id>"
\* names, and not to the reserved "system" channel.
C11_ReportSummaryReachesOrigin ==
    \A k \in ReportTurns :
        \E j \in DOMAIN outbound :
            /\ outbound[j].channel # "system"
            /\ outbound[j].channel \o ":" \o outbound[j].chat_id = turns[k].msg.chat_id

\* ------------------------------------------------------------------------
\* Properties of the tool context (checked under SpecSpawnTool)
\* ------------------------------------------------------------------------

\* The origin of the subagents spawned through the spawn tool since the
\* last context injection would be the spawn tool's context.
NextSpawnOrigin == tool_ctx.spawn

\* C12: a call _update_tool_context(channel, chat_id) does not raise and
\* leaves that channel and chat_id in the message tool and in the spawn
\* tool, so that a subagent the spawn tool starts from then on has them as
\* its origin.
C12_ContextInjectedIntoTools ==
    ctx_last # <<>> =>
        LET c == [channel |-> ctx_last[1].channel, chat_id |-> ctx_last[1].chat_id]
        IN /\ ~ctx_last[1].raised
           /\ tool_ctx.message = c
           /\ NextSpawnOrigin = c

\* ------------------------------------------------------------------------
\* Properties of the subagents' isolation (checked under SpecIsolation)
\* ------------------------------------------------------------------------

\* The tool messages in the message list of subagent s that answer a call
\* of one of the tools named.
ToolAnswers(s, names) ==
    {k \in DOMAIN s.messages :
        s.messages[k].role = "tool" /\ s.messages[k].name \in names}

\* C13: the registry of a subagent holds neither message nor spawn; the
\* message list of a running subagent starts with its own system prompt and
\* its task as the user message; every call of message or spawn a subagent
\* makes is answered with the not-registered error; no subagent adds a
\* background task, sends an outbound message or touches a session.
C13_SubagentIsolated ==
    /\ SubagentTools \cap {"message", "spawn"} = {}
    /\ \A i \in DOMAIN subs :
         LET s == subs[i] IN
         /\ s.pc = "chat" =>
              /\ Len(s.messages) >= 2
              /\ s.messages[1] = [role |-> "system",
                                  content |-> BuildSubagentPrompt(s.task)]
              /\ s.messages[2] = [role |-> "user", content |-> s.task]
         /\ \A k \in ToolAnswers(s, {"message", "spawn"}) :
              s.messages[k].content =
                  "Error: tool '" \o s.messages[k].name \o "' is not registered"
    /\ \A i \in DOMAIN subs : subs[i].task \in {r.task : r \in DelegationRequests}
    /\ outbound = <<>>
    /\ sessions = NoSessions
    /\ disk = NoSessions

\* A running subagent has called message and spawn and has both refusals in
\* its message list.
C13_Witness ==
    \E i \in DOMAIN subs :
        /\ subs[i].pc = "chat"
        /\ \E k \in ToolAnswers(subs[i], {"message"}) :
              subs[i].messages[k].content = "Error: tool 'message' is not registered"
        /\ \E k \in ToolAnswers(subs[i], {"spawn"}) :
              subs[i].messages[k].content = "Error: tool 'spawn' is not registered"

\* ------------------------------------------------------------------------
\* Properties of the bus (checked under SpecBus, C15 under Spec)
\* ------------------------------------------------------------------------

\* C14: for every outbound message a dispatcher has taken, each callback
\* subscribed to the message's channel was called exactly once with that
\* message, in subscription order, whether or not other callbacks raised;
\* and the dispatcher that took it is still in its loop.
C14_EverySubscriberCalled ==
    \A k \in DOMAIN dispatched :
        LET d == dispatched[k] IN
        /\ Len(d.calls) = Len(d.callbacks)
        /\ \A j \in DOMAIN d.callbacks :
             /\ d.calls[j].callback = d.callbacks[j]
             /\ d.calls[j].msg = d.msg
        /\ dispatchers[d.by] \in {"top", "get"}

\* A message went to two subscribers of which the first raised, and a later
\* message was delivered to both subscribers as well.
C14_Witness ==
    /\ Len(dispatched) = 2
    /\ Len(dispatched[1].callbacks) = 2
    /\ dispatched[1].calls[1].raised
    /\ ~dispatched[1].calls[2].raised
    /\ Len(dispatched[2].calls) = 2

\* C15: the queues are bounded: neither ever holds more messages than the
\* size it was constructed with, a publisher waiting instead while its
\* queue is full.
C15_QueuesBounded ==
    /\ Len(inbound) <= InboundSize
    /\ Len(outbound) <= OutboundSize

\* ---------------------------------------------------------------------
\* C16: bus.start() twice is bus.start() once and scheduler.start() twice is
\* scheduler.start() once.  Whatever the number of start() calls made, the
\* bus has one dispatcher task and the scheduler one loop task and one
\* flusher task; a start() applied to the state a start() leaves, at that
\* time or later, gives that state again, the job store, its file and the
\* tasks included.
C16_StartIdempotent ==
    /\ starts.bus >= 1 => bus_running /\ Len(dispatchers) = 1
    /\ starts.cron >= 1 =>
         cron_running /\ cron_tasks = [scheduler |-> 1, flusher |-> 1]
    /\ LET b == BusStartOp(bus_running, dispatchers)
       IN BusStartOp(b.running, b.tasks) = b
    /\ LET c == CronStartOp(CronState, now)
       IN \A t \in now..MaxTime : CronStartOp(c, t) = c

\* Both start() were called twice, the second call of the scheduler's on a
\* running service whose store holds a job and differs from its file.
C16_Witness ==
    /\ starts.bus = 2
    /\ starts.cron = 2
    /\ Len(dispatchers) = 1
    /\ cron_store # <<>>
    /\ cron_disk # StoreSnapshot(cron_heap, cron_store)

\* ---------------------------------------------------------------------
\* C17: every job created by add_job with a well-formed schedule is enabled
\* and, right after add_job returns, has next_run_at_ms set and strictly
\* greater than the current time.  Every schedule of JobRequests is
\* well-formed: it passes CronSchedule.validate.
C17_AddedJobIsScheduled ==
    [][Len(cron_heap') = Len(cron_heap) + 1 =>
         LET job == cron_heap'[Len(cron_heap')]
         IN /\ job.enabled
            /\ job.next_run_at_ms # NoTime
            /\ job.next_run_at_ms > now']_vars

\* C17 as the code has it: the same for every job whose schedule is not a
\* one-shot, or is a one-shot with at_ms later than the time of add_job.
C17_AddedJobWithFutureTimeIsScheduled ==
    [][/\ Len(cron_heap') = Len(cron_heap) + 1
       /\ LET job == cron_heap'[Len(cron_heap')]
          IN job.schedule.kind = "at" => job.schedule.at_ms > now'
       => LET job == cron_heap'[Len(cron_heap')]
          IN /\ job.enabled
             /\ job.next_run_at_ms # NoTime
             /\ job.next_run_at_ms > now']_vars

\* add_job has just returned twice, for a one-shot in the future and for an
\* interval job: neither has been fired and both are scheduled ahead.
C17_Witness ==
    /\ Len(cron_heap) = 2
    /\ \A i \in DOMAIN cron_heap :
         /\ cron_runs[i].fired = 0
         /\ cron_heap[i].enabled
         /\ cron_heap[i].next_run_at_ms > now
    /\ \E i \in DOMAIN cron_heap : cron_heap[i].schedule.kind = "at"
    /\ \E i \in DOMAIN cron_heap : cron_heap[i].schedule.kind # "at"

\* ---------------------------------------------------------------------
\* C18: in every scheduler tick at time t, every job whose callback the
\* tick fires is enabled and has next_run_at_ms set and <= t at the moment
\* it is fired.  A tick fires a job in the step that begins the await of
\* its callback: the step that enters _run_jobs, or the one that passes
\* from a job of the due set to the next.
C18_FiredJobsAreDue ==
    [][cron_pc' = "callback" /\ (cron_pc # "callback" \/ cron_due' # cron_due)
       => LET job == cron_heap'[cron_cur']
          IN /\ job.enabled
             /\ job.next_run_at_ms # NoTime
             /\ job.next_run_at_ms <= cron_tick_now']_vars

\* ---------------------------------------------------------------------
\* C19: once an execution of a job has ended, a one-shot with
\* delete_after_run is out of the store and its callback was invoked exactly
\* once; a one-shot without it is in the store with enabled = false; a job
\* of kind every or cron is in the store and enabled.
C19_OneShotRunsOnce ==
    \A id \in DOMAIN cron_heap :
        cron_runs[id].ended # "none" =>
            LET job == cron_heap[id]
            IN IF job.schedule.kind = "at" /\ job.delete_after_run
               THEN id \notin Range(cron_store) /\ cron_runs[id].fired = 1
               ELSE IF job.schedule.kind = "at"
               THEN id \in Range(cron_store) /\ ~job.enabled
               ELSE id \in Range(cron_store) /\ job.enabled

\* ---------------------------------------------------------------------
\* C20: a callback that raises is recorded and stops nothing.  After every
\* step: the scheduler loop has not ended; a job whose last callback raised
\* has last_status "error" and the exception text in last_error, one whose
\* last callback returned has last_status "ok" and no last_error; a job of
\* kind every or cron is enabled with next_run_at_ms set.  The step in which
\* a callback of a tick ends, however it ends, begins the callback of the
\* next job of the due set if there is one; else it ends the round, and
\* every recurring job of the store is then scheduled after the present.
C20_CallbackErrorsAreRecorded ==
    [][/\ cron_pc' # "crashed"
       /\ \A id \in DOMAIN cron_heap' :
            LET job == cron_heap'[id]
            IN /\ cron_runs'[id].ended = "raised" =>
                    /\ job.last_status = "error"
                    /\ \E o \in CallbackOutcomes :
                         o.raised /\ job.last_error = o.exc
               /\ cron_runs'[id].ended = "returned" =>
                    job.last_status = "ok" /\ job.last_error = NULL
               /\ job.schedule.kind # "at" =>
                    job.enabled /\ job.next_run_at_ms # NoTime
       /\ cron_pc = "callback" /\ (cron_cur' # cron_cur \/ cron_pc' # cron_pc) =>
            IF cron_due # <<>>
            THEN /\ cron_pc' = "callback"
                 /\ cron_cur' = Head(cron_due)
                 /\ cron_due' = Tail(cron_due)
                 /\ cron_runs'[cron_cur'].fired = cron_runs[cron_cur'].fired + 1
            ELSE /\ cron_pc' = "wait"
                 /\ \A id \in Range(cron_store') :
                      cron_heap'[id].schedule.kind # "at" =>
                          cron_heap'[id].next_run_at_ms > now']_vars

\* A tick with two due jobs: the callback of the first, a recurring job
\* still due at the time of the tick, was invoked once and raised, the error
\* is recorded, the job is enabled, and the tick awaits the callback of the
\* second job.
C20_Witness ==
    /\ cron_pc = "callback"
    /\ cron_cur = 2
    /\ cron_heap[1].schedule.kind # "at"
    /\ cron_heap[1].next_run_at_ms <= cron_tick_now
    /\ cron_runs[1] = [fired |-> 1, ended |-> "raised"]
    /\ cron_heap[1].last_status = "error"
    /\ cron_heap[1].last_error = "agent down"
    /\ cron_heap[1].enabled
    /\ cron_runs[2] = [fired |-> 1, ended |-> "none"]

\* ---------------------------------------------------------------------
\* C21: a heartbeat tick invokes the callback only if HEARTBEAT.md exists,
\* is readable and has at least one non-empty line that is not a markdown
\* header, an HTML comment or an empty checkbox.  Every invocation made, by
\* the loop or by trigger_now, found such a file.
HeaderLine(line) == Head(line) = "#"

CommentLine(line) == Head(line) = "<!--"

\* A checkbox without a text, ticked or not.
EmptyCheckbox(line) ==
    line \in {<<"- [ ]">>, <<"* [ ]">>, <<"- [x]">>, <<"* [x]">>}

TaskLine(line) ==
    /\ Strip(line) # <<>>
    /\ ~HeaderLine(Strip(line))
    /\ ~CommentLine(Strip(line))
    /\ ~EmptyCheckbox(Strip(line))

C22_HeartbeatLifecycleIdempotent ==
    /\ Cardinality({i \in LiveLoops : ~hb_tasks[i].cancel}) <= 1
    /\ hb_stops = {} => Cardinality(LiveLoops) <= 1
    /\ hb_running => HbStartOp(HeartbeatState) = HeartbeatState
    /\ ~hb_running => HbStopOp(HeartbeatState) = HeartbeatState
    /\ HbStartOp(HbStartOp(HeartbeatState)) = HbStartOp(HeartbeatState)
    /\ HbStopOp(HbStopOp(HeartbeatState)) = HbStopOp(HeartbeatState)
    /\ ~hb_running => \A i \in LiveLoops : hb_tasks[i].cancel
    /\ ~hb_running /\ hb_stops = {} => LiveLoops = {}

\* start, stop while the loop sleeps, the return of stop, and start again:
\* the first loop task has ended and the second sleeps.
C22_Witness ==
    /\ hb_running
    /\ hb_stops = {}
    /\ Len(hb_tasks) = 2
    /\ hb_tasks[1] = [pc |-> "done", cancel |-> TRUE]
    /\ hb_tasks[2] = [pc |-> "sleep", cancel |-> FALSE]
    /\ hb_loop_task = 2
    /\ hb_calls = <<>>

\* ---------------------------------------------------------------------
\* C30: stopping the heartbeat service while the callback of a tick is in
\* progress does not cancel the callback: no invocation of the callback
\* ends by cancellation.
C30_CallbackNotCancelled ==
    \A k \in DOMAIN hb_calls : hb_calls[k].state # "cancelled"

\* ---------------------------------------------------------------------
\* C23: handle_message publishes only for a sender the allow-list admits:
\* the list is empty, or holds the sender id or one of its components; with
\* an empty list every event is published.  The
\* inbound queue holds exactly the admitted events, in order, a denied event
\* adds nothing, and each message has the adapter's name as its channel, so
\* that its session key is that name, ":" and the chat id.
Admitted(allow_list, sender) ==
    \/ allow_list = <<>>
    \/ sender \in Range(allow_list)
    \/ \E k \in DOMAIN sender : <<sender[k]>> \in Range(allow_list)

PublishedEvents == SelectSeq(chan_log, LAMBDA e : e.published)

C23_OnlyAllowedSendersPublished ==
    /\ \A k \in DOMAIN chan_log :
         LET e == chan_log[k].event
         IN /\ chan_log[k].published => Admitted(AllowFrom(e.channel), e.sender)
            /\ AllowFrom(e.channel) = <<>> => chan_log[k].published
    /\ Len(inbound) = Len(PublishedEvents)
    /\ \A k \in DOMAIN inbound :
         LET e == PublishedEvents[k].event
         IN /\ inbound[k].channel = e.channel
            /\ inbound[k].channel \in Adapters
            /\ inbound[k].sender_id = SenderText(e.sender)
            /\ inbound[k].chat_id = e.chat_id
            /\ SessionKey(inbound[k]) = e.channel \o ":" \o e.chat_id

\* whatsapp has admitted a composite sender by one of its components and
\* denied another composite sender: one message is queued for two events.
C23_Witness ==
    /\ Len(chan_log) = 2
    /\ chan_log[1].event.channel = "whatsapp"
    /\ chan_log[1].event.sender = <<"mallory", "alice">>
    /\ chan_log[1].published
    /\ chan_log[2].event.channel = "whatsapp"
    /\ chan_log[2].event.sender = <<"mallory", "eve">>
    /\ ~chan_log[2].published
    /\ Len(inbound) = 1
    /\ SessionKey(inbound[1]) = "whatsapp:" \o chan_log[1].event.chat_id

\* ---------------------------------------------------------------------
\* Properties of SessionManager.save and _load (checked under SpecStore)
\* ---------------------------------------------------------------------

\* The session a save call has just renamed into place.
JustSaved == st_heap[st_save[1].id]

\* C24: for every session, saving it and then loading it by its key yields
\* a session with equal messages (same order, same fields), equal metadata
\* and equal created_at, whatever the time of the load.
C24_SaveLoadRoundTrip ==
    (st_save # <<>> /\ st_save[1].pc = "replaced") =>
        \A t \in Clock :
            LET loaded == LoadOp(st_files, JustSaved.key, t)
            IN /\ loaded # <<>>
               /\ loaded[1].messages = JustSaved.messages
               /\ loaded[1].metadata = JustSaved.metadata
               /\ loaded[1].created_at = JustSaved.created_at

\* A session with a quote and a line feed in its messages, a line feed in
\* its metadata and a tool message has been saved, and is loaded later
\* than it was created.
C24_Witness ==
    /\ st_save # <<>>
    /\ st_save[1].pc = "replaced"
    /\ Len(JustSaved.messages) = MaxMessages
    /\ \E k \in DOMAIN JustSaved.messages :
           Quote \in Range(JustSaved.messages[k].content)
    /\ \E k \in DOMAIN JustSaved.messages :
           /\ LF \in Range(JustSaved.messages[k].content)
           /\ "tool_call_id" \in DOMAIN JustSaved.messages[k]
    /\ JustSaved.metadata # EmptyDict
    /\ \E t \in Clock : t # JustSaved.created_at

\* C25: at every point of a save, also when it fails or the process dies in
\* the middle of the writing, every session file holds the complete text of
\* the session of the last completed rename, which is the previous state
\* until the rename and the new state from it on, and can be loaded; and
\* after a failed save the cache holds the session object, with the
\* messages it had at the save.
C25_SaveIsAtomic ==
    /\ \A key \in StoreKeys :
         LET path == SessionPath(key)
         IN /\ path \in DOMAIN st_files <=> path \in DOMAIN st_committed
            /\ path \in DOMAIN st_files =>
                 /\ st_files[path] = FileText(st_committed[path])
                 /\ LoadOp(st_files, key, NowIso(now)) # <<>>
    /\ (st_last # <<>> /\ ~st_last[1].ok) =>
         LET key == st_last[1].session.key
         IN /\ key \in DOMAIN st_cache
            /\ st_cache[key] = st_last[1].id
            /\ SubSeq(st_heap[st_cache[key]].messages, 1,
                      Len(st_last[1].session.messages))
                   = st_last[1].session.messages

\* A save of a session with messages has failed in the middle of the
\* writing: the temporary file holds a part of the new text and the
\* session file still holds the older state.
C25_Witness ==
    /\ st_last # <<>>
    /\ ~st_last[1].ok
    /\ st_last[1].session.messages # <<>>
    /\ LET path == SessionPath(st_last[1].session.key)
           tmp == TmpPath(path)
       IN /\ path \in DOMAIN st_files
          /\ st_committed[path].messages # st_last[1].session.messages
          /\ tmp \in DOMAIN st_files
          /\ st_files[tmp] # <<>>
          /\ Len(st_files[tmp]) < Len(FileText(st_last[1].session))

\* ---------------------------------------------------------------------
\* Properties of ExecTool.execute (checked under SpecShell)
\* ---------------------------------------------------------------------

\* The claim's prefix of a blocked call's result.
BlockedPrefix == "Error: command blocked by safety guard"

\* The command of a call, as the guard reads it, matches a deny pattern.
MatchesDeny(call) ==
    \E k \in DOMAIN DenyPatterns :
        Search(DenyPatterns[k], Lower(Trim(call.command)))

\* An allowlist is configured and the command matches none of its patterns.
OutsideAllowlist(call) ==
    /\ call.allow # <<>>
    /\ \A k \in DOMAIN call.allow :
           ~Search(call.allow[k], Lower(Trim(call.command)))

\* C26: a call whose command matches a deny pattern, or matches no pattern
\* of a configured allowlist, returns at once a string starting "Error:
\* command blocked by safety guard", and no subprocess is launched for it.
C26_GuardBeforeSubprocess ==
    \A i \in DOMAIN sh_calls :
        (MatchesDeny(sh_calls[i]) \/ OutsideAllowlist(sh_calls[i])) =>
            /\ sh_calls[i].state = "returned"
            /\ ~sh_calls[i].launched
            /\ Head(sh_calls[i].result) = BlockedPrefix

\* "rm -rf /" has been blocked by the deny list, a command outside the
\* configured allowlist by the allowlist.
C26_Witness ==
    /\ Len(sh_calls) = 2
    /\ sh_calls[1].command = <<"r", "m", " ", "-", "r", "f", " ", "/">>
    /\ sh_calls[1].result = DangerousPattern
    /\ ~sh_calls[1].launched
    /\ sh_calls[2].command = <<"c", "a", "t", " ", "a", ".", "t", "x", "t">>
    /\ sh_calls[2].allow # <<>>
    /\ sh_calls[2].result = NotInAllowlist
    /\ ~sh_calls[2].launched

\* ---------------------------------------------------------------------
\* Properties of MessageBus.stop (checked under SpecStop)
\* ---------------------------------------------------------------------

\* The bus has been stopped and not started again.
BusStopped == ~bus_running /\ bus_stop_mark # <<>>

\* Every dispatcher task has ended.
DispatchersEnded == \A d \in DOMAIN dispatchers : dispatchers[d] = "done"

\* No message published after the stop has been handed to a callback.
NoDeliveryAfterStop ==
    BusStopped =>
        \A k \in DOMAIN dispatched :
            k > bus_stop_mark[1] => dispatched[k].calls = <<>>

\* Once the bus is stopped the dispatchers end, unless it is started again.
StopTerminates == BusStopped ~> (DispatchersEnded \/ bus_running)

\* C27: once stop() has cleared the run flag, the dispatcher delivers no
\* outbound message published after the stop, and it eventually ends, also
\* when nothing more is published.
C27_StopEndsDispatcher == []NoDeliveryAfterStop /\ StopTerminates

\* ---------------------------------------------------------------------
\* Properties of CronService._run_jobs (checked under SpecCron)
\* ---------------------------------------------------------------------

\* C28: while a tick executes its due set, one callback is awaited at a
\* time and the due jobs still to be executed are those inserted after the
\* job being executed, in insertion order (add_job numbers the jobs in the
\* order of insertion); none of them is started before the callback
\* awaited has returned or raised.
C28_DueSetSequentialInInsertionOrder ==
    /\ cron_pc = "callback" =>
         /\ cron_cur \in DOMAIN cron_heap
         /\ cron_runs[cron_cur].fired >= 1
         /\ \A k \in DOMAIN cron_due :
              /\ cron_due[k] > cron_cur
              /\ k > 1 => cron_due[k] > cron_due[k - 1]
    /\ cron_pc # "callback" => cron_cur = 0 /\ cron_due = <<>>

\* A tick found two jobs due: the callback of the first is awaited and
\* that of the second has not been invoked.
C28_Witness ==
    /\ cron_pc = "callback"
    /\ cron_cur = 1
    /\ cron_due = <<2>>
    /\ cron_runs[1] = [fired |-> 1, ended |-> "none"]
    /\ cron_runs[2].fired = 0

\* ---------------------------------------------------------------------
\* Properties of the scheduler's mutators (checked under SpecMutate)
\* ---------------------------------------------------------------------

\* The store file holds the jobs of the in-memory store as they are.
StorePersisted == cron_disk = StoreSnapshot(cron_heap, cron_store)

\* Job id, if it is in the store and enabled, has the next_run_at_ms that
\* compute_next_run gives at the present time.
NextRunRecomputed(id) ==
    (id \in Range(cron_store) /\ cron_heap[id].enabled) =>
        cron_heap[id].next_run_at_ms = ComputeNextRun(cron_heap[id].schedule, now)

\* When a mutator returns the event is set and the file equals the store.
MutationSignalsAndPersists ==
    [][(\/ AddJob
        \/ \E id \in Range(cron_store) : RunJob(id)
        \/ \E id \in Range(cron_store) : RemoveJob(id))
       => (cron_wakeup /\ StorePersisted)']_vars

\* C29: every mutation recomputes next_run_at_ms, signals the wakeup event
\* and persists: when add_job, run_job on a job of the store or remove_job
\* of a job of the store returns, the event is set, the store file equals
\* the in-memory store, and the job added or run has its next_run_at_ms
\* recomputed.
C29_MutationRecomputesSignalsPersists ==
    [][/\ AddJob =>
            (cron_wakeup /\ StorePersisted /\ NextRunRecomputed(Len(cron_heap)))'
       /\ \A id \in Range(cron_store) :
            RunJob(id) => (cron_wakeup /\ StorePersisted /\ NextRunRecomputed(id))'
       /\ \A id \in Range(cron_store) :
            RemoveJob(id) => (cron_wakeup /\ StorePersisted)']_vars

\* ------------------------------------------------------------------------
\* C31: the consume loop polls again after a read timeout and ends on any
\* other exception
\* ------------------------------------------------------------------------

\* The positions in the log of the turns that run() started and that raised.
RaisedRunTurns ==
    {k \in 1..Len(turns) : turns[k].caller = "run" /\ turns[k].outcome = "raised"}

\* C31: a read timeout on the inbound queue leaves the loop running, while
\* an exception raised while a message is handled ends the loop: run() has
\* re-raised it, and no later turn is started by that loop.
C31_OnlyTimeoutIsNotFatal ==
    /\ \A k \in RaisedRunTurns :
         /\ run_state = "crashed"
         /\ \A j \in 1..Len(turns) : j > k => turns[j].caller # "run"
    /\ (run_state = "crashed") => RaisedRunTurns # {}
    /\ (ENABLED RunPollTimeout) => run_state = "running"

\* A turn of the loop has raised while a later message waits in the queue.
C31_Witness ==
    /\ RaisedRunTurns # {}
    /\ inbound # <<>>
    /\ run_state = "crashed"

\* ------------------------------------------------------------------------
\* C32: the count of running subagents
\* ------------------------------------------------------------------------

\* The spawned tasks whose coroutine has not finished.
Unfinished == {i \in DOMAIN subs : subs[i].pc # "done"}

AwaitsFirstRun(id) ==
    /\ id \in Range(cron_store)
    /\ cron_heap[id].enabled
    /\ cron_heap[id].schedule.kind = "every"
    /\ cron_heap[id].next_run_at_ms # NoTime
    /\ cron_runs[id].fired = 0

\* C33: while the scheduler runs every enabled interval job is executed
\* again and again whatever other jobs exist; in particular the execution
\* of one job never postpones the next run of another: an interval job that
\* waits for its first run keeps the next_run_at_ms add_job gave it until
\* the scheduler executes it.
C33_NoStarvationOfIntervalJobs ==
    [][\A id \in DOMAIN cron_heap :
          (AwaitsFirstRun(id) /\ cron_runs'[id].fired = 0)
             => cron_heap'[id].next_run_at_ms <= cron_heap[id].next_run_at_ms]_vars

\* ------------------------------------------------------------------------
\* C34: a one-shot job is not skipped (checked under SpecRestart)
\* ------------------------------------------------------------------------

\* Job id is an enabled one-shot job of the store that was added with
\* at_ms in the future, is scheduled for at_ms and has not been executed.
OneShotPending(id) ==
    /\ id \in Range(cron_store)
    /\ cron_heap[id].enabled
    /\ cron_heap[id].schedule.kind = "at"
    /\ cron_heap[id].next_run_at_ms = cron_heap[id].schedule.at_ms
    /\ cron_heap[id].next_run_at_ms # NoTime
    /\ cron_runs[id].fired = 0

\* C34: a one-shot job added with at_ms in the future and never removed is
\* executed once its time has passed, as long as the scheduler keeps running
\* or is restarted: until the scheduler executes it the job stays scheduled
\* for at_ms, whatever elapses meanwhile: another job's callback, the
\* scheduler's sleep, or a stop of the service.
C34_OneShotNeverSkipped ==
    [][\A id \in DOMAIN cron_heap :
          (OneShotPending(id) /\ cron_runs'[id].fired = 0)
             => cron_heap'[id].next_run_at_ms = cron_heap[id].schedule.at_ms]_vars

\* ------------------------------------------------------------------------
\* C35: a removed job is not executed (checked under SpecMutate)
\* ------------------------------------------------------------------------

\* remove_job(id) has returned true: job id is out of the store and it is
\* not a one-shot that _execute_job deletes after its run.
Removed(id) ==
    /\ id \notin Range(cron_store)
    /\ ~(cron_heap[id].schedule.kind = "at" /\ cron_heap[id].delete_after_run)

\* C35: once remove_job(id) has returned true the callback of job id is
\* never invoked again, also when the job was removed while a tick was
\* executing a due set collected before the removal.
C35_RemovedJobNeverInvoked ==
    [][\A id \in DOMAIN cron_heap :
          Removed(id) => cron_runs'[id].fired = cron_runs[id].fired]_vars

\* ------------------------------------------------------------------------
\* C36: ticks and run_job interleaved (checked under SpecCron)
\* ------------------------------------------------------------------------

\* A step in which a tick invokes a callback: the one that enters _run_jobs
\* or the one that passes from a job of the due set to the next.
TickInvokesCallback ==
    /\ cron_pc' = "callback"
    /\ (cron_pc # "callback" \/ cron_due' # cron_due)

\* C36: under every interleaving of run_job with a tick that is executing
\* its due set, a tick never executes a one-shot job that has been executed
\* before, by a tick or by run_job, and never executes a disabled job.
C36_TickNeverRepeatsOneShot ==
    [][TickInvokesCallback =>
          /\ cron_heap[cron_cur'].enabled
          /\ cron_heap[cron_cur'].schedule.kind = "at"
                => cron_runs[cron_cur'].fired = 0]_vars

\* ------------------------------------------------------------------------
\* C37: the routing context during a turn (checked under Spec)
\* ------------------------------------------------------------------------

\* The channel and chat_id of a message.
RouteOf(msg) == [channel |-> msg.channel, chat_id |-> msg.chat_id]

LiveDispatchers == {d \in DOMAIN dispatchers : dispatchers[d] # "done"}

\* C38: after any sequence of start() and stop() calls at most one
\* dispatcher loop is alive, and every outbound message taken from the
\* queue was handed once to each subscriber of its channel.
C38_AtMostOneDispatcher ==
    /\ Cardinality(LiveDispatchers) <= 1
    /\ \A k \in DOMAIN dispatched :
         /\ Len(dispatched[k].calls) = Len(dispatched[k].callbacks)
         /\ \A j \in DOMAIN dispatched[k].calls :
              /\ dispatched[k].calls[j].callback = dispatched[k].callbacks[j]
              /\ dispatched[k].calls[j].msg = dispatched[k].msg

\* ------------------------------------------------------------------------
\* C39: no inbound message is lost (checked under SpecConsume)
\* ------------------------------------------------------------------------

\* Message m waits in the inbound queue.
Queued(m) == \E i \in DOMAIN inbound : inbound[i] = m

\* The consume loop has taken message m and called _handle_message on it.
Consumed(m) ==
    \E k \in DOMAIN turns : turns[k].caller = "run" /\ turns[k].msg = m

\* No turn of the consume loop has raised.
NoTurnRaised ==
    \A k \in DOMAIN turns : turns[k].caller = "run" => turns[k].outcome # "raised"

\* The messages of the turns of the consume loop, in the order handled.
HandledByRun ==
    LET runs == SelectSeq(turns, LAMBDA t : t.caller = "run")
    IN [k \in DOMAIN runs |-> runs[k].msg]

C40_DistinctKeysDistinctFiles ==
    \A key \in StoreKeys :
        LoadOp(st_files, key, NowIso(now)) # <<>> =>
            /\ SessionPath(key) \in DOMAIN st_committed
            /\ st_committed[SessionPath(key)].key = key

====
